---- MODULE Spec2Model ----
(***************************************************************************)
(* Hybrid PoA / PoSA Clique engine of bkc: header verification, snapshot   *)
(* derivation and vote tallying.                                           *)
(*                                                                         *)
(* Addresses are small integers (their numeric order is the byte order     *)
(* the engine sorts signers by); 0 is the zero address.  A header's seal   *)
(* is represented by the address that ecrecover returns for it.  The chain *)
(* is linear, so a block hash is identified with the block's height.       *)
(* Checks of verifyHeader that depend on wall-clock time, gas limits,      *)
(* uncle hash and fork hashes are outside the model.                       *)
(***************************************************************************)
EXTENDS Integers, Sequences, FiniteSets, TLC

\* ------------------------------------------------------------------ bounds
NumAddr == 4
MaxHeight == 2
MaxBlocks == 4
MaxImport == 3
MaxSigners == 6

Addr == 1..NumAddr

\* -------------------------------------------------------- program constants
ZeroAddr == 0
Nil == -1
checkpointInterval == 1024
FullImmutabilityThreshold == 90000
extraVanity == 32
extraSeal == 65
AddressLength == 20
validatorBytesLength == 40
contractBytesLength == 60
diffInTurn == 2
diffNoTurn == 1
nonceAuthVote == "ffffffffffffffff"
nonceDropVote == "0000000000000000"
epochLength == 30000
fakeDiff == FALSE

NoError == "nil"
errUnknownBlock == "UnknownBlock"
errUnknownAncestor == "UnknownAncestor"
errInvalidCheckpointBeneficiary == "InvalidCheckpointBeneficiary"
errInvalidVote == "InvalidVote"
errInvalidCheckpointVote == "InvalidCheckpointVote"
errExtraSigners == "ExtraSigners"
errInvalidCheckpointSigners == "InvalidCheckpointSigners"
errMismatchingCheckpointSigners == "MismatchingCheckpointSigners"
errInvalidMixDigest == "InvalidMixDigest"
errInvalidDifficulty == "InvalidDifficulty"
errWrongDifficulty == "WrongDifficulty"
errUnauthorizedSigner == "UnauthorizedSigner"
errRecentlySigned == "RecentlySigned"
errInvalidVotingChain == "InvalidVotingChain"

VARIABLES
    config,     \* c.config: Period, Epoch, Span, ErawanBlock, ChaophrayaBlock
    genesis,    \* the genesis header (its extra-data carries the first signers)
    chain,      \* imported headers, chain[n] is the header at height n
    dbHead,     \* heights 1..dbHead are in the chain database, the rest of
                \* chain is the batch being imported (the parents argument)
    recents,    \* c.recents: cached snapshots by block
    store,      \* snapshots persisted in c.db by block
    result,     \* the verification result waiting to be delivered
    tally,      \* the snapshot that headers are folded into one at a time
    state       \* the state database at the chain head: balances, account
                \* nonces and the slashing records of the SlashManager

vars == <<config, genesis, chain, dbHead, recents, store, result, tally, state>>

\* ------------------------------------------------------ uint64 arithmetic
\* Go evaluates number-limit and seen > number-limit on uint64.  A uint64 is
\* kept as four 16-bit limbs, most significant first.
LimbBase == 65536

U64(n) == <<0, 0, n \div LimbBase, n % LimbBase>>

SubLimb(x, y, borrow) ==
    LET d == x - y - borrow
    IN  IF d < 0 THEN <<d + LimbBase, 1>> ELSE <<d, 0>>

SubU64(a, b) ==
    LET l4 == SubLimb(a[4], b[4], 0)
        l3 == SubLimb(a[3], b[3], l4[2])
        l2 == SubLimb(a[2], b[2], l3[2])
        l1 == SubLimb(a[1], b[1], l2[2])
    IN  <<l1[1], l2[1], l3[1], l4[1]>>

GtU64(a, b) ==
    \/ a[1] > b[1]
    \/ a[1] = b[1] /\ a[2] > b[2]
    \/ a[1] = b[1] /\ a[2] = b[2] /\ a[3] > b[3]
    \/ a[1] = b[1] /\ a[2] = b[2] /\ a[3] = b[3] /\ a[4] > b[4]

\* ------------------------------------------------------------ small helpers
RECURSIVE SetToSortedSeq(_)
SetToSortedSeq(S) ==
    IF S = {} THEN <<>>
    ELSE LET m == CHOOSE x \in S : \A y \in S : x <= y
         IN  <<m>> \o SetToSortedSeq(S \ {m})

Reverse(s) == [i \in 1..Len(s) |-> s[Len(s) + 1 - i]]

Range(f) == {f[k] : k \in DOMAIN f}

EmptyMap == [k \in {} |-> 0]

MapPut(f, k, v) == [x \in (DOMAIN f) \cup {k} |-> IF x = k THEN v ELSE f[x]]

MapDel(f, k) == [x \in (DOMAIN f) \ {k} |-> f[x]]

\* ------------------------------------------------------ chain configuration
IsErawan(number) ==
    config.ErawanBlock # Nil /\ config.ErawanBlock <= number

IsChaophraya(number) ==
    config.ChaophrayaBlock # Nil /\ config.ChaophrayaBlock <= number

isOnEpochStart(number) == number % config.Epoch = 0

isNextBlockPoS(number) == IsChaophraya(number + 1)

isSpanFirstBlock(number) == IsChaophraya(number) /\ number % config.Span = 0

isNextBlockASpanFirstBlock(number) ==
    IsChaophraya(number + 1) /\ (number + 1) % config.Span = 0

isNextBlockExactChaophrayaBlock(number) ==
    IsChaophraya(number + 1) /\ config.ChaophrayaBlock = number + 1

needToUpdateValidatorList(number) ==
    isNextBlockASpanFirstBlock(number) \/ isNextBlockExactChaophrayaBlock(number)

isInturnDifficulty(diff) == diff = diffInTurn

isNoturnDifficulty(diff) == diff = diffNoTurn

\* ------------------------------------------------------------------ headers
\* Extra is the middle section of the extra-data as a sequence of 20-byte
\* words; ExtraRem counts the bytes of a trailing partial word.
ecrecover(header) == header.Signer

\* MixDigest is <<leading 12 bytes, trailing 20 bytes>>.  The guard of the
\* source compares the empty slice MixDigest[12:12] with zero, which always
\* holds, so the trailing 20 bytes are returned whatever the leading bytes.
EmptyHash == <<0, 0>>

\* the reader of the vote as it was before the Erawan change
getVoteAddrCoinbase(header) == header.Coinbase

getVoteAddr(header) ==
    IF IsErawan(header.Number) THEN header.MixDigest[2] ELSE header.Coinbase

signersBytesOf(header) == Len(header.Extra) * AddressLength + header.ExtraRem

\* ----------------------------------------------------------------- snapshot
\* Snapshot: Number, Signers, Recents (height -> signer), Votes (sequence of
\* Signer, Block, Address, Authorize), Tally (address -> Authorize, Votes),
\* Validators, SystemContracts.
NoContracts == [StakeManager |-> ZeroAddr, SlashManager |-> ZeroAddr,
                OfficialNode |-> ZeroAddr]

newSnapshot(number, signerList) ==
    [Number |-> number,
     Signers |-> Range(signerList),
     Recents |-> EmptyMap,
     Votes |-> <<>>,
     Tally |-> EmptyMap,
     Validators |-> <<>>,
     SystemContracts |-> NoContracts]

signers(snap) == SetToSortedSeq(snap.Signers)

\* in-turn iff Signers[N mod |Signers|] == signer (signers ascending)
inturn(snap, number, signer) ==
    LET list == signers(snap)
    IN  /\ Len(list) > 0
        /\ list[(number % Len(list)) + 1] = signer

getInturnSigner(snap, number) ==
    LET list == signers(snap)
    IN  IF Len(list) = 0 THEN ZeroAddr ELSE list[(number % Len(list)) + 1]

\* a vote is valid when it adds a non-signer or removes a current signer
validVote(snap, address, authorize) ==
    LET isSigner == address \in snap.Signers
    IN  (isSigner /\ ~authorize) \/ (~isSigner /\ authorize)

\* cast bumps Tally[address] when the vote is valid
cast(snap, address, authorize) ==
    IF ~validVote(snap, address, authorize) THEN snap
    ELSE IF address \in DOMAIN snap.Tally
         THEN [snap EXCEPT !.Tally[address].Votes = @ + 1]
         ELSE [snap EXCEPT !.Tally =
                  MapPut(@, address, [Authorize |-> authorize, Votes |-> 1])]

\* uncast takes a counted vote back out of Tally[address]
uncastForgotten(snap, address, authorize) == snap

uncast(snap, address, authorize) ==
    IF address \notin DOMAIN snap.Tally THEN snap
    ELSE IF snap.Tally[address].Authorize # authorize THEN snap
    ELSE IF snap.Tally[address].Votes > 1
         THEN [snap EXCEPT !.Tally[address].Votes = @ - 1]
         ELSE [snap EXCEPT !.Tally = MapDel(@, address)]

RECURSIVE uncastAll(_, _)
uncastAll(snap, votes) ==
    IF votes = <<>> THEN snap
    ELSE uncastAll(uncast(snap, votes[1].Address, votes[1].Authorize), Tail(votes))

\* the span transition carried by a validator-list update block: the payload
\* is (address, power) word pairs followed by StakeManager, SlashManager and
\* OfficialNode
payloadWellFormed(header) ==
    /\ header.ExtraRem = 0
    /\ Len(header.Extra) >= 3
    /\ (Len(header.Extra) - 3) % 2 = 0

payloadValidators(header) ==
    [i \in 1..((Len(header.Extra) - 3) \div 2) |->
        [Address |-> header.Extra[2 * i - 1], VotingPower |-> header.Extra[2 * i]]]

payloadContracts(header) ==
    LET n == Len(header.Extra)
    IN  [StakeManager |-> header.Extra[n - 2],
         SlashManager |-> header.Extra[n - 1],
         OfficialNode |-> header.Extra[n]]

spanTransition(snap, header) ==
    LET vals == payloadValidators(header)
    IN  [snap EXCEPT !.Validators = vals,
                     !.Signers = {vals[i].Address : i \in DOMAIN vals},
                     !.SystemContracts = payloadContracts(header)]

\* step 6: a previous vote of signer on voted is taken back
keepPreviousVote(snap, signer, voted) == snap

dropPreviousVote(snap, signer, voted) ==
    LET prev == {i \in DOMAIN snap.Votes :
                    snap.Votes[i].Signer = signer /\ snap.Votes[i].Address = voted}
    IN  IF prev = {} THEN snap
        ELSE LET i == CHOOSE x \in prev : \A y \in prev : x <= y
             IN  [uncast(snap, voted, snap.Votes[i].Authorize) EXCEPT
                    !.Votes = SubSeq(snap.Votes, 1, i - 1)
                              \o SubSeq(snap.Votes, i + 1, Len(snap.Votes))]

\* step 8: the vote passes with strictly more than half of the signers
votePassedAtHalf(snap, voted) ==
    /\ voted \in DOMAIN snap.Tally
    /\ snap.Tally[voted].Votes >= Cardinality(snap.Signers) \div 2

votePassed(snap, voted) ==
    /\ voted \in DOMAIN snap.Tally
    /\ snap.Tally[voted].Votes > Cardinality(snap.Signers) \div 2

\* step 8: voted joins or leaves the signers
applyTransitionCascading(snap, voted) ==
    LET first == IF snap.Tally[voted].Authorize
                 THEN snap.Signers \cup {voted} ELSE snap.Signers \ {voted}
        half == Cardinality(first) \div 2
        more == {a \in DOMAIN snap.Tally : a # voted /\ snap.Tally[a].Votes > half}
    IN  [snap EXCEPT !.Signers =
            (first \cup {a \in more : snap.Tally[a].Authorize})
                \ {a \in more : ~snap.Tally[a].Authorize}]

applyTransition(snap, voted) ==
    IF snap.Tally[voted].Authorize
    THEN [snap EXCEPT !.Signers = @ \cup {voted}]
    ELSE [snap EXCEPT !.Signers = @ \ {voted}]

\* step 8: the votes cast by a deauthorized signer are discarded
keepVotesBy(snap, voted) == snap

discardVotesBy(snap, voted) ==
    LET byVoted == SelectSeq(snap.Votes, LAMBDA v : v.Signer = voted)
    IN  [uncastAll(snap, byVoted) EXCEPT
           !.Votes = SelectSeq(snap.Votes, LAMBDA v : v.Signer # voted)]

\* step 8: the votes targeting voted are discarded and its tally is reset
keepVotesOn(snap, voted) == snap

discardVotesOn(snap, voted) ==
    [snap EXCEPT !.Votes = SelectSeq(snap.Votes, LAMBDA v : v.Address # voted),
                 !.Tally = MapDel(snap.Tally, voted)]

\* step 4: an epoch start clears the votes and the tally
epochKeep(snap) == snap

epochReset(snap) == [snap EXCEPT !.Votes = <<>>, !.Tally = EmptyMap]

\* steps 5-8 of the tallying algorithm
tallyVote(snap, header, signer) ==
    LET number == header.Number
        voted == getVoteAddr(header)
        authorize == header.Nonce = nonceAuthVote
        s6 == dropPreviousVote(snap, signer, voted)
        s7 == IF validVote(s6, voted, authorize)
              THEN [cast(s6, voted, authorize) EXCEPT
                      !.Votes = Append(s6.Votes,
                                  [Signer |-> signer, Block |-> number,
                                   Address |-> voted, Authorize |-> authorize])]
              ELSE s6
        s8 == applyTransition(s7, voted)
        s8b == IF s7.Tally[voted].Authorize THEN s8 ELSE discardVotesBy(s8, voted)
    IN  IF voted = ZeroAddr THEN snap
        ELSE IF ~votePassed(s7, voted) THEN s7
        ELSE discardVotesOn(s8b, voted)

\* one header folded into the snapshot (steps 1-9)
applyHeader(snap, header) ==
    LET number == header.Number
        signer == ecrecover(header)
        authorized == \/ signer \in snap.Signers
                      \/ /\ IsChaophraya(number)
                         /\ signer = snap.SystemContracts.OfficialNode
        limit == Cardinality(snap.Signers) \div 2 + 1
        retained == [k \in {x \in DOMAIN snap.Recents : x > number - limit}
                        |-> snap.Recents[k]]
        s3 == [snap EXCEPT !.Number = number,
                           !.Recents = MapPut(retained, number, signer)]
        update == needToUpdateValidatorList(number)
        s3b == IF update THEN spanTransition(s3, header) ELSE s3
    IN  IF number # snap.Number + 1
        THEN [err |-> errInvalidVotingChain, snap |-> snap]
        ELSE IF ~authorized
        THEN [err |-> errUnauthorizedSigner, snap |-> snap]
        ELSE IF signer \in Range(retained)
        THEN [err |-> errRecentlySigned, snap |-> snap]
        ELSE IF update /\ ~payloadWellFormed(header)
        THEN [err |-> errInvalidCheckpointSigners, snap |-> snap]
        ELSE IF isOnEpochStart(number)
        THEN [err |-> NoError, snap |-> epochReset(s3b)]
        ELSE IF update
        THEN [err |-> NoError, snap |-> s3b]
        ELSE [err |-> NoError, snap |-> tallyVote(s3, header, signer)]

RECURSIVE apply(_, _)
apply(snap, headers) ==
    IF headers = <<>> THEN [err |-> NoError, snap |-> snap]
    ELSE LET r == applyHeader(snap, headers[1])
         IN  IF r.err # NoError THEN r ELSE apply(r.snap, Tail(headers))

\* ------------------------------------------------------ snapshot derivation
NilHeader == [Number |-> Nil]

NilSnap == [Number |-> Nil]

\* chain.GetHeader / chain.GetHeaderByNumber: headers of the chain database
GetHeaderByNumber(number) ==
    IF number = 0 THEN genesis
    ELSE IF number >= 1 /\ number <= dbHead THEN chain[number]
    ELSE NilHeader

\* the backward scan of snapshot(): stops at a cached snapshot, a persisted
\* checkpoint snapshot or a trusted checkpoint header, gathering the headers
\* passed on the way (newest first)
RECURSIVE findBase(_, _, _)
findBase(number, parents, headers) ==
    IF number \in DOMAIN recents
    THEN [err |-> NoError, snap |-> recents[number], headers |-> headers,
          number |-> number, store |-> store]
    ELSE IF number % checkpointInterval = 0 /\ number \in DOMAIN store
    THEN [err |-> NoError, snap |-> store[number], headers |-> headers,
          number |-> number, store |-> store]
    ELSE IF /\ \/ number = 0
               \/ /\ isOnEpochStart(number)
                  /\ \/ Len(headers) > FullImmutabilityThreshold
                     \/ GetHeaderByNumber(number - 1) = NilHeader
            /\ GetHeaderByNumber(number) # NilHeader
    THEN LET checkpoint == GetHeaderByNumber(number)
             snap == newSnapshot(number, checkpoint.Extra)
         IN  [err |-> NoError, snap |-> snap, headers |-> headers,
              number |-> number, store |-> MapPut(store, number, snap)]
    ELSE LET header == IF Len(parents) > 0 THEN parents[Len(parents)]
                       ELSE GetHeaderByNumber(number)
         IN  IF \/ Len(parents) > 0 /\ header.Number # number
                \/ Len(parents) = 0 /\ header = NilHeader
             THEN [err |-> errUnknownAncestor, snap |-> NilSnap,
                   headers |-> headers, number |-> number, store |-> store]
             ELSE findBase(number - 1,
                           IF Len(parents) > 0
                           THEN SubSeq(parents, 1, Len(parents) - 1)
                           ELSE parents,
                           Append(headers, header))

\* snapshot(), after the backward scan b found its base: the headers passed
\* are applied oldest first (r), the result is cached, and it is persisted
\* at a checkpoint interval or when the scan ended on the Chaophraya block
applyPendingInPlace(b, headers, r) ==
    IF r.err # NoError
    THEN [err |-> r.err, snap |-> NilSnap, recents |-> recents, store |-> b.store]
    ELSE [err |-> NoError, snap |-> r.snap,
          recents |-> MapPut(IF b.number \in DOMAIN recents
                             THEN MapPut(recents, b.number, r.snap) ELSE recents,
                             r.snap.Number, r.snap),
          store |-> IF /\ \/ r.snap.Number % checkpointInterval = 0
                          \/ /\ config.ChaophrayaBlock # Nil
                             /\ b.number = config.ChaophrayaBlock
                       /\ Len(headers) > 0
                    THEN MapPut(b.store, r.snap.Number, r.snap)
                    ELSE b.store]

applyPending(b, headers, r) ==
    IF r.err # NoError
    THEN [err |-> r.err, snap |-> NilSnap, recents |-> recents, store |-> b.store]
    ELSE [err |-> NoError, snap |-> r.snap,
          recents |-> MapPut(recents, r.snap.Number, r.snap),
          store |-> IF /\ \/ r.snap.Number % checkpointInterval = 0
                          \/ /\ config.ChaophrayaBlock # Nil
                             /\ b.number = config.ChaophrayaBlock
                       /\ Len(headers) > 0
                    THEN MapPut(b.store, r.snap.Number, r.snap)
                    ELSE b.store]

fromBaseNewestFirst(b) ==
    IF b.err # NoError
    THEN [err |-> b.err, snap |-> NilSnap, recents |-> recents, store |-> b.store]
    ELSE applyPending(b, b.headers, apply(b.snap, b.headers))

fromBase(b) ==
    IF b.err # NoError
    THEN [err |-> b.err, snap |-> NilSnap, recents |-> recents, store |-> b.store]
    ELSE applyPending(b, Reverse(b.headers), apply(b.snap, Reverse(b.headers)))

\* snapshot(): the result, and the cache and the store as the call leaves them
snapshot(number, parents) == fromBase(findBase(number, parents, <<>>))

\* ------------------------------------------------------ header verification
\* Go's remainder takes the sign of the dividend
GoMod(a, b) == IF a >= 0 THEN a % b ELSE 0 - ((0 - a) % b)

checkDifficultyAny(snap, header, signer) == NoError

checkDifficulty(snap, header, signer) ==
    IF fakeDiff THEN NoError
    ELSE IF inturn(snap, header.Number, signer) /\ ~isInturnDifficulty(header.Difficulty)
    THEN errWrongDifficulty
    ELSE IF ~inturn(snap, header.Number, signer) /\ ~isNoturnDifficulty(header.Difficulty)
    THEN errWrongDifficulty
    ELSE NoError

verifySealAnySigner(snap, header) ==
    LET number == header.Number
        signer == ecrecover(header)
        limit == Cardinality(snap.Signers) \div 2 + 1
    IN  IF number = 0 THEN errUnknownBlock
        ELSE IF \E seen \in DOMAIN snap.Recents :
                    /\ snap.Recents[seen] = signer
                    /\ GtU64(U64(seen), SubU64(U64(number), U64(limit)))
        THEN errRecentlySigned
        ELSE checkDifficulty(snap, header, signer)

verifySeal(snap, header) ==
    LET number == header.Number
        signer == ecrecover(header)
        limit == Cardinality(snap.Signers) \div 2 + 1
    IN  IF number = 0 THEN errUnknownBlock
        ELSE IF signer \notin snap.Signers THEN errUnauthorizedSigner
        ELSE IF \E seen \in DOMAIN snap.Recents :
                    /\ snap.Recents[seen] = signer
                    /\ GtU64(U64(seen), SubU64(U64(number), U64(limit)))
        THEN errRecentlySigned
        ELSE checkDifficulty(snap, header, signer)

verifySealPoS(snap, header) ==
    LET number == header.Number
        signer == ecrecover(header)
    IN  IF number = 0 THEN errUnknownBlock
        ELSE IF signer \notin snap.Signers /\ signer # snap.SystemContracts.OfficialNode
        THEN errUnauthorizedSigner
        ELSE checkDifficulty(snap, header, signer)

\* the checkpoint signer list and the seal, against the parent snapshot
verifySignersAndSeal(snap, header) ==
    IF /\ isOnEpochStart(header.Number)
       /\ ~IsChaophraya(header.Number)
       /\ ~(header.Extra = signers(snap) /\ header.ExtraRem = 0)
    THEN errMismatchingCheckpointSigners
    ELSE IF IsChaophraya(header.Number) THEN verifySealPoS(snap, header)
    ELSE verifySeal(snap, header)

\* verifyCascadingFields once the parent snapshot s is retrieved
verifyAgainst(s, header) ==
    IF s.err # NoError
    THEN [err |-> s.err, snap |-> NilSnap, recents |-> s.recents, store |-> s.store]
    ELSE [err |-> verifySignersAndSeal(s.snap, header), snap |-> s.snap,
          recents |-> s.recents, store |-> s.store]

\* verifyCascadingFields: the result with the cache and the store as left
verifyCascadingFields(header, parents) ==
    LET number == header.Number
        parent == IF Len(parents) > 0 THEN parents[Len(parents)]
                  ELSE GetHeaderByNumber(number - 1)
    IN  IF number = 0
        THEN [err |-> NoError, snap |-> NilSnap, recents |-> recents, store |-> store]
        ELSE IF parent = NilHeader \/ parent.Number # number - 1
        THEN [err |-> errUnknownAncestor, snap |-> NilSnap,
              recents |-> recents, store |-> store]
        ELSE verifyAgainst(snapshot(number - 1, parents), header)

verifyHeader(header, parents) ==
    LET number == header.Number
        checkpoint == isOnEpochStart(number)
        update == isNextBlockPoS(number) /\ needToUpdateValidatorList(number)
        checkpoint2 == IF isNextBlockPoS(number)
                       THEN needToUpdateValidatorList(number) ELSE checkpoint
        signerBytesLength == IF update THEN AddressLength * 2 ELSE AddressLength
        signersBytes == IF update THEN signersBytesOf(header) - contractBytesLength
                        ELSE signersBytesOf(header)
        fail(e) == [err |-> e, snap |-> NilSnap, recents |-> recents, store |-> store]
    IN  IF IsErawan(number) /\ checkpoint /\ getVoteAddr(header) # ZeroAddr
        THEN fail(errInvalidCheckpointBeneficiary)
        ELSE IF ~IsErawan(number) /\ checkpoint /\ header.Coinbase # ZeroAddr
        THEN fail(errInvalidCheckpointBeneficiary)
        ELSE IF ~IsErawan(number) /\ header.MixDigest # EmptyHash
        THEN fail(errInvalidMixDigest)
        ELSE IF header.Nonce # nonceAuthVote /\ header.Nonce # nonceDropVote
        THEN fail(errInvalidVote)
        ELSE IF checkpoint /\ header.Nonce # nonceDropVote
        THEN fail(errInvalidCheckpointVote)
        ELSE IF ~checkpoint2 /\ signersBytes # 0
        THEN fail(errExtraSigners)
        ELSE IF checkpoint2 /\ GoMod(signersBytes, signerBytesLength) # 0
        THEN fail(errInvalidCheckpointSigners)
        ELSE IF number > 0 /\ ~IsChaophraya(number)
                /\ ~isInturnDifficulty(header.Difficulty)
                /\ ~isNoturnDifficulty(header.Difficulty)
        THEN fail(errInvalidDifficulty)
        ELSE verifyCascadingFields(header, parents)

\* ------------------------------------------------------------ block producer
calcDifficulty(snap, signer) ==
    IF inturn(snap, snap.Number + 1, signer) THEN diffInTurn ELSE diffNoTurn

\* HeaderBytes of the validators the contract client reports, followed by the
\* three system-contract addresses
validatorPayload(cv) ==
    LET word(i) == IF i % 2 = 1 THEN cv.validators[(i + 1) \div 2].Address
                   ELSE cv.validators[i \div 2].VotingPower
    IN  [i \in 1..(2 * Len(cv.validators)) |-> word(i)]
        \o <<cv.contracts.StakeManager, cv.contracts.SlashManager,
              cv.contracts.OfficialNode>>

\* Prepare: header is the caller's header, val the local signer, proposals
\* c.proposals, pick the address rand.Intn selects among the valid proposals,
\* cv the answer of GetCurrentValidators (cv.err when the call fails), s the
\* parent snapshot
prepareOnKeepingCoinbase(s, header, val, proposals, pick, cv) ==
    LET number == header.Number
        h1 == [header EXCEPT
                 !.Coinbase = IF IsChaophraya(number) THEN val ELSE @,
                 !.Nonce = nonceDropVote]
        addresses == {a \in DOMAIN proposals : validVote(s.snap, a, proposals[a])}
        h2 == IF ~isOnEpochStart(number) /\ addresses # {}
              THEN [h1 EXCEPT
                      !.MixDigest = IF IsErawan(number) THEN <<0, pick>> ELSE @,
                      !.Coinbase = IF IsErawan(number) THEN @ ELSE pick,
                      !.Nonce = IF proposals[pick] THEN nonceAuthVote
                                ELSE nonceDropVote]
              ELSE h1
        h3 == [h2 EXCEPT !.Difficulty = calcDifficulty(s.snap, val)]
        e1 == IF isOnEpochStart(number) /\ ~IsChaophraya(number)
              THEN signers(s.snap) ELSE <<>>
        update == number > 0 /\ isNextBlockPoS(number)
                  /\ needToUpdateValidatorList(number)
        parent == GetHeaderByNumber(number - 1)
    IN  IF s.err # NoError
        THEN [err |-> s.err, header |-> header, snap |-> NilSnap,
              recents |-> s.recents, store |-> s.store]
        ELSE IF update /\ cv.err
        THEN [err |-> "unknown validators", header |-> h3, snap |-> s.snap,
              recents |-> s.recents, store |-> s.store]
        ELSE [err |-> IF parent = NilHeader THEN errUnknownAncestor ELSE NoError,
              header |-> [h3 EXCEPT
                            !.Extra = IF update THEN e1 \o validatorPayload(cv)
                                      ELSE e1,
                            !.ExtraRem = 0],
              snap |-> s.snap, recents |-> s.recents, store |-> s.store]

prepareOn(s, header, val, proposals, pick, cv) ==
    LET number == header.Number
        h1 == [header EXCEPT
                 !.Coinbase = IF IsChaophraya(number) THEN val
                              ELSE IF ~IsErawan(number) THEN ZeroAddr ELSE @,
                 !.Nonce = nonceDropVote]
        addresses == {a \in DOMAIN proposals : validVote(s.snap, a, proposals[a])}
        h2 == IF ~isOnEpochStart(number) /\ addresses # {}
              THEN [h1 EXCEPT
                      !.MixDigest = IF IsErawan(number) THEN <<0, pick>> ELSE @,
                      !.Coinbase = IF IsErawan(number) THEN @ ELSE pick,
                      !.Nonce = IF proposals[pick] THEN nonceAuthVote
                                ELSE nonceDropVote]
              ELSE h1
        h3 == [h2 EXCEPT !.Difficulty = calcDifficulty(s.snap, val)]
        e1 == IF isOnEpochStart(number) /\ ~IsChaophraya(number)
              THEN signers(s.snap) ELSE <<>>
        update == number > 0 /\ isNextBlockPoS(number)
                  /\ needToUpdateValidatorList(number)
        parent == GetHeaderByNumber(number - 1)
    IN  IF s.err # NoError
        THEN [err |-> s.err, header |-> header, snap |-> NilSnap,
              recents |-> s.recents, store |-> s.store]
        ELSE IF update /\ cv.err
        THEN [err |-> "unknown validators", header |-> h3, snap |-> s.snap,
              recents |-> s.recents, store |-> s.store]
        ELSE [err |-> IF parent = NilHeader THEN errUnknownAncestor ELSE NoError,
              header |-> [h3 EXCEPT
                            !.Extra = IF update THEN e1 \o validatorPayload(cv)
                                      ELSE e1,
                            !.ExtraRem = 0],
              snap |-> s.snap, recents |-> s.recents, store |-> s.store]

Prepare(header, val, proposals, pick, cv) ==
    prepareOn(snapshot(header.Number - 1, <<>>), header, val, proposals, pick, cv)

\* Seal: the checks that refuse to seal, and the sealed block that is never
\* sent.  sl is the answer of the slash contract about the in-turn signer:
\* "fails", "slashed" or "clear".  After Chaophraya a block that is not
\* in-turn, or whose in-turn signer is slashed, is sent by the OfficialNode
\* only.
sealRefusalAnySigner(snap, header, val, sl) ==
    LET number == header.Number
        limit == Cardinality(snap.Signers) \div 2 + 1
    IN  IF number = 0 THEN errUnknownBlock
        ELSE IF IsChaophraya(number) /\ val \notin snap.Signers
                /\ val # snap.SystemContracts.OfficialNode
        THEN errUnauthorizedSigner
        ELSE IF /\ ~IsChaophraya(number)
                /\ \E seen \in DOMAIN snap.Recents :
                      /\ snap.Recents[seen] = val
                      /\ \/ number < limit
                         \/ GtU64(U64(seen), SubU64(U64(number), U64(limit)))
        THEN "signed recently, must wait for others"
        ELSE IF IsChaophraya(number) /\ sl = "fails"
        THEN "contract call failed"
        ELSE IF /\ IsChaophraya(number)
                /\ ~isInturnDifficulty(header.Difficulty) \/ sl = "slashed"
                /\ val # snap.SystemContracts.OfficialNode
        THEN "sealed block not sent"
        ELSE NoError

sealRefusal(snap, header, val, sl) ==
    LET number == header.Number
        limit == Cardinality(snap.Signers) \div 2 + 1
    IN  IF number = 0 THEN errUnknownBlock
        ELSE IF ~IsChaophraya(number) /\ val \notin snap.Signers
        THEN errUnauthorizedSigner
        ELSE IF IsChaophraya(number) /\ val \notin snap.Signers
                /\ val # snap.SystemContracts.OfficialNode
        THEN errUnauthorizedSigner
        ELSE IF /\ ~IsChaophraya(number)
                /\ \E seen \in DOMAIN snap.Recents :
                      /\ snap.Recents[seen] = val
                      /\ \/ number < limit
                         \/ GtU64(U64(seen), SubU64(U64(number), U64(limit)))
        THEN "signed recently, must wait for others"
        ELSE IF IsChaophraya(number) /\ sl = "fails"
        THEN "contract call failed"
        ELSE IF /\ IsChaophraya(number)
                /\ ~isInturnDifficulty(header.Difficulty) \/ sl = "slashed"
                /\ val # snap.SystemContracts.OfficialNode
        THEN "sealed block not sent"
        ELSE NoError

\* ------------------------------------------------------------ block finalizer
\* The state database holds a balance and a nonce per account and the
\* records of the SlashManager contract, per validator and span.  The system
\* contracts live at their own addresses.
SystemAddress == NumAddr + 1

StakeManagerAddr == SystemAddress + 1

SlashManagerAddr == StakeManagerAddr + 1

ValidatorContract == SlashManagerAddr + 1

Accounts ==
    Addr \cup {ZeroAddr, SystemAddress, StakeManagerAddr, SlashManagerAddr,
               ValidatorContract}

GenesisState ==
    [balance |-> [a \in Accounts |-> 0], nonce |-> [a \in Accounts |-> 0],
     slashed |-> EmptyMap]

errMismatchingSpanValidators == "mismatching validator list on span block"
errInvalidSpan == "invalid span"
errNoSystemTx == "supposed to get a actual transaction, but get none"
errTxHashMismatch == "expected tx hash mismatch"
errSystemTxsLength == "the length of systemTxs do not match"
errExecutionReverted == "execution reverted"

\* math.MaxUint64 / 2 in 16-bit limbs, most significant first: the shift
\* moves the low bit of each limb into the next one
HalfMaxUint64 ==
    LET MaxUint64 == [i \in 1..4 |-> LimbBase - 1]
    IN  [i \in 1..4 |-> MaxUint64[i] \div 2
                         + (IF i = 1 THEN 0
                            ELSE (MaxUint64[i - 1] % 2) * (LimbBase \div 2))]

getSystemMessageQuarterGas(from, toAddress, data, value) ==
    [From |-> from, To |-> toAddress, Data |-> data, Value |-> value,
     Gas |-> [i \in 1..4 |-> HalfMaxUint64[i] \div 2
                              + (IF i = 1 THEN 0
                                 ELSE (HalfMaxUint64[i - 1] % 2) * (LimbBase \div 2))],
     GasPrice |-> 0]

\* a system message: gas math.MaxUint64 / 2, gas price 0, sent by the
\* block's coinbase
getSystemMessage(from, toAddress, data, value) ==
    [From |-> from, To |-> toAddress, Data |-> data, Value |-> value,
     Gas |-> HalfMaxUint64, GasPrice |-> 0]

\* signer.Hash: the signing hash covers nonce, recipient, value, gas, gas
\* price and data, not the signature
signerHash(tx) ==
    [Nonce |-> tx.Nonce, To |-> tx.To, Value |-> tx.Value, Gas |-> tx.Gas,
     GasPrice |-> tx.GasPrice, Data |-> tx.Data]

\* what the called contract does with a successful call: the SlashManager
\* records the slashed validator for the span (slashed counts the slash
\* calls per validator and span)
callContract(st, msg) ==
    LET key == <<msg.Data[2], msg.Data[3]>>
    IN  IF msg.Data[1] # "slash" THEN st
        ELSE IF key \in DOMAIN st.slashed
        THEN [st EXCEPT !.slashed[key] = @ + 1]
        ELSE [st EXCEPT !.slashed = MapPut(@, key, 1)]

\* applyMessage: the EVM call moves the value and runs the contract, or
\* fails and leaves the state alone (ok is the outcome of the call)
applyMessage(msg, st, ok) ==
    IF ~ok \/ st.balance[msg.From] < msg.Value
    THEN [err |-> errExecutionReverted, state |-> st]
    ELSE [err |-> NoError,
          state |-> callContract(
              [st EXCEPT !.balance =
                  [[@ EXCEPT ![msg.From] = @ - msg.Value]
                      EXCEPT ![msg.To] = @ + msg.Value]], msg)]

\* applyTransaction on the finalization context c (state, txs, received,
\* err): when mining for the local validator val the expected transaction is
\* signed, otherwise the head of the received stream must have its signing
\* hash and is consumed; then the message is applied and the transaction is
\* appended
applyTransactionUnchecked(c, msg, mining, val, ok) ==
    LET nonce == c.state.nonce[msg.From]
        expectedTx == [Nonce |-> nonce, To |-> msg.To, Value |-> msg.Value,
                       Gas |-> msg.Gas, GasPrice |-> msg.GasPrice,
                       Data |-> msg.Data, From |-> Nil]
        signing == msg.From = val /\ mining
        tx == IF signing THEN [expectedTx EXCEPT !.From = val]
              ELSE Head(c.received)
        rest == IF signing THEN c.received ELSE Tail(c.received)
        r == applyMessage(msg, c.state, ok)
    IN  IF ~signing /\ c.received = <<>>
        THEN [c EXCEPT !.err = errNoSystemTx]
        ELSE IF r.err # NoError
        THEN [c EXCEPT !.err = r.err, !.received = rest]
        ELSE [state |-> [r.state EXCEPT !.nonce[msg.From] = nonce + 1],
              txs |-> Append(c.txs, tx), received |-> rest, err |-> NoError]

applyTransaction(c, msg, mining, val, ok) ==
    LET nonce == c.state.nonce[msg.From]
        expectedTx == [Nonce |-> nonce, To |-> msg.To, Value |-> msg.Value,
                       Gas |-> msg.Gas, GasPrice |-> msg.GasPrice,
                       Data |-> msg.Data, From |-> Nil]
        signing == msg.From = val /\ mining
        tx == IF signing THEN [expectedTx EXCEPT !.From = val]
              ELSE Head(c.received)
        rest == IF signing THEN c.received ELSE Tail(c.received)
        r == applyMessage(msg, c.state, ok)
    IN  IF ~signing /\ c.received = <<>>
        THEN [c EXCEPT !.err = errNoSystemTx]
        ELSE IF ~signing /\ signerHash(Head(c.received)) # signerHash(expectedTx)
        THEN [c EXCEPT !.err = errTxHashMismatch]
        ELSE IF r.err # NoError
        THEN [c EXCEPT !.err = r.err, !.received = rest]
        ELSE [state |-> [r.state EXCEPT !.nonce[msg.From] = nonce + 1],
              txs |-> Append(c.txs, tx), received |-> rest, err |-> NoError]

\* the current span the ValidatorSet contract reports at the parent block
GetCurrentSpan(header) == (header.Number - 1) \div config.Span

\* isSignerSlashed of the SlashManager at the parent block
IsSlashed(parent, signer, span) == <<signer, span>> \in DOMAIN parent.slashed

isSpanCommitmentBlockAtHalf(number) ==
    /\ IsChaophraya(number)
    /\ number % config.Span = config.Span \div 2

isSpanCommitmentBlock(number) ==
    /\ IsChaophraya(number)
    /\ number % config.Span = config.Span \div 2 + 1

\* commitSpan: validatorBytes encodes the validators selected for the next
\* span
commitSpan(c, header, validatorBytes, mining, val, evm) ==
    applyTransaction(c,
        getSystemMessage(header.Coinbase, ValidatorContract,
                         <<"commitSpan", validatorBytes>>, 0),
        mining, val, "commitSpan" \notin evm)

\* slash: GetCurrentSpan and IsSlashed are read calls at the parent block, a
\* failure of either (evm names the failing calls) is returned; nothing is
\* sent when the validator is already slashed in the span
slashAlways(c, spoiledVal, header, snap, parent, mining, val, evm) ==
    LET currentSpan == IF isSpanFirstBlock(header.Number)
                       THEN GetCurrentSpan(header) + 1
                       ELSE GetCurrentSpan(header)
    IN  IF "currentSpanNumber" \in evm \/ "isSignerSlashed" \in evm
        THEN [c EXCEPT !.err = errExecutionReverted]
        ELSE applyTransaction(c,
            getSystemMessage(header.Coinbase, snap.SystemContracts.SlashManager,
                             <<"slash", spoiledVal, currentSpan>>, 0),
            mining, val, "slash" \notin evm)

slash(c, spoiledVal, header, snap, parent, mining, val, evm) ==
    LET currentSpan == IF isSpanFirstBlock(header.Number)
                       THEN GetCurrentSpan(header) + 1
                       ELSE GetCurrentSpan(header)
    IN  IF "currentSpanNumber" \in evm \/ "isSignerSlashed" \in evm
        THEN [c EXCEPT !.err = errExecutionReverted]
        ELSE IF IsSlashed(parent, spoiledVal, currentSpan) THEN c
        ELSE applyTransaction(c,
                 getSystemMessage(header.Coinbase,
                                  snap.SystemContracts.SlashManager,
                                  <<"slash", spoiledVal, currentSpan>>, 0),
                 mining, val, "slash" \notin evm)

\* distributeIncoming: the balance of the system address goes to the
\* coinbase and from there, with the transaction, to the StakeManager
distributeIncomingKeeping(c, header, snap, mining, val, evm) ==
    LET coinbase == header.Coinbase
        balance == c.state.balance[SystemAddress]
    IN  IF balance <= 0 THEN c
        ELSE applyTransaction(
                 [c EXCEPT !.state.balance[coinbase] = @ + balance],
                 getSystemMessage(coinbase, snap.SystemContracts.StakeManager,
                                  <<"distributeReward">>, balance),
                 mining, val, "distributeReward" \notin evm)

distributeIncoming(c, header, snap, mining, val, evm) ==
    LET coinbase == header.Coinbase
        balance == c.state.balance[SystemAddress]
    IN  IF balance <= 0 THEN c
        ELSE applyTransaction(
                 [c EXCEPT !.state.balance =
                     [[@ EXCEPT ![SystemAddress] = 0]
                         EXCEPT ![coinbase] = @ + balance]],
                 getSystemMessage(coinbase, snap.SystemContracts.StakeManager,
                                  <<"distributeReward">>, balance),
                 mining, val, "distributeReward" \notin evm)

\* the validator words GetCurrentValidators reports, as a header carries them
validatorsBytes(cv) == SubSeq(validatorPayload(cv), 1, 2 * Len(cv.validators))

\* Finalize (verification): st is the state after the block's transactions,
\* systemTxs the system transactions received with the block, snap the
\* snapshot of the parent, cv the answer of GetCurrentValidators,
\* validatorBytes the validators selected for the next span, val the local
\* validator, evm the calls that fail in the EVM.  The result is the
\* finalization context: state, txs appended, received left over, err.
FinalizeAnyDifficulty(header, st, systemTxs, snap, cv, validatorBytes, val, evm) ==
    LET number == header.Number
        official == snap.SystemContracts.OfficialNode
        extraSuffix == Len(header.Extra) - contractBytesLength \div AddressLength
        c0 == [state |-> st, txs |-> <<>>, received |-> systemTxs, err |-> NoError]
        c1 == IF isSpanCommitmentBlock(number)
              THEN commitSpan(c0, header, validatorBytes, FALSE, val, evm)
              ELSE c0
        c2 == IF ~isInturnDifficulty(header.Difficulty) /\ header.Coinbase = official
              THEN slash(c1, getInturnSigner(snap, number), header, snap, st,
                         FALSE, val, evm)
              ELSE c1
        c3 == distributeIncoming(c2, header, snap, FALSE, val, evm)
    IN  IF ~IsChaophraya(number) THEN c0
        ELSE IF needToUpdateValidatorList(number) /\ cv.err
        THEN [c0 EXCEPT !.err = "contract call failed"]
        ELSE IF /\ needToUpdateValidatorList(number)
                /\ SubSeq(header.Extra, 1, extraSuffix) # validatorsBytes(cv)
        THEN [c0 EXCEPT !.err = errMismatchingSpanValidators]
        ELSE IF c1.err # NoError THEN [c1 EXCEPT !.err = errInvalidSpan]
        ELSE IF ~isInturnDifficulty(header.Difficulty) /\ header.Coinbase # official
        THEN [c1 EXCEPT !.err = errUnauthorizedSigner]
        ELSE IF c2.err # NoError THEN c2
        ELSE IF c3.err # NoError THEN c3
        ELSE IF Len(c3.received) > 0 THEN [c3 EXCEPT !.err = errSystemTxsLength]
        ELSE c3

Finalize(header, st, systemTxs, snap, cv, validatorBytes, val, evm) ==
    LET number == header.Number
        official == snap.SystemContracts.OfficialNode
        extraSuffix == Len(header.Extra) - contractBytesLength \div AddressLength
        c0 == [state |-> st, txs |-> <<>>, received |-> systemTxs, err |-> NoError]
        c1 == IF isSpanCommitmentBlock(number)
              THEN commitSpan(c0, header, validatorBytes, FALSE, val, evm)
              ELSE c0
        c2 == IF ~isInturnDifficulty(header.Difficulty) /\ header.Coinbase = official
              THEN slash(c1, getInturnSigner(snap, number), header, snap, st,
                         FALSE, val, evm)
              ELSE c1
        c3 == distributeIncoming(c2, header, snap, FALSE, val, evm)
    IN  IF ~IsChaophraya(number) THEN c0
        ELSE IF isNoturnDifficulty(header.Difficulty) /\ ecrecover(header) # official
        THEN [c0 EXCEPT !.err = errInvalidDifficulty]
        ELSE IF needToUpdateValidatorList(number) /\ cv.err
        THEN [c0 EXCEPT !.err = "contract call failed"]
        ELSE IF /\ needToUpdateValidatorList(number)
                /\ SubSeq(header.Extra, 1, extraSuffix) # validatorsBytes(cv)
        THEN [c0 EXCEPT !.err = errMismatchingSpanValidators]
        ELSE IF c1.err # NoError THEN [c1 EXCEPT !.err = errInvalidSpan]
        ELSE IF ~isInturnDifficulty(header.Difficulty) /\ header.Coinbase # official
        THEN [c1 EXCEPT !.err = errUnauthorizedSigner]
        ELSE IF c2.err # NoError THEN c2
        ELSE IF c3.err # NoError THEN c3
        ELSE IF Len(c3.received) > 0 THEN [c3 EXCEPT !.err = errSystemTxsLength]
        ELSE c3

\* FinalizeAndAssemble (production): the local validator val signs the
\* system transactions, nothing is received
FinalizeAndAssembleRewardFirst(header, st, snap, validatorBytes, val, evm) ==
    LET number == header.Number
        official == snap.SystemContracts.OfficialNode
        c0 == [state |-> st, txs |-> <<>>, received |-> <<>>, err |-> NoError]
        c1 == IF isSpanCommitmentBlock(number)
              THEN commitSpan(c0, header, validatorBytes, TRUE, val, evm)
              ELSE c0
        c2 == distributeIncoming(c1, header, snap, TRUE, val, evm)
        c3 == IF ~isInturnDifficulty(header.Difficulty) /\ header.Coinbase = official
              THEN slash(c2, getInturnSigner(snap, number), header, snap, st,
                         TRUE, val, evm)
              ELSE c2
    IN  IF ~IsChaophraya(number) THEN c0
        ELSE IF c1.err # NoError THEN [c1 EXCEPT !.err = errInvalidSpan]
        ELSE IF c2.err # NoError THEN c2
        ELSE c3

FinalizeAndAssemble(header, st, snap, validatorBytes, val, evm) ==
    LET number == header.Number
        official == snap.SystemContracts.OfficialNode
        c0 == [state |-> st, txs |-> <<>>, received |-> <<>>, err |-> NoError]
        c1 == IF isSpanCommitmentBlock(number)
              THEN commitSpan(c0, header, validatorBytes, TRUE, val, evm)
              ELSE c0
        c2 == IF ~isInturnDifficulty(header.Difficulty) /\ header.Coinbase = official
              THEN slash(c1, getInturnSigner(snap, number), header, snap, st,
                         TRUE, val, evm)
              ELSE c1
        c3 == distributeIncoming(c2, header, snap, TRUE, val, evm)
    IN  IF ~IsChaophraya(number) THEN c0
        ELSE IF c1.err # NoError THEN [c1 EXCEPT !.err = errInvalidSpan]
        ELSE IF c2.err # NoError THEN c2
        ELSE c3

\* ------------------------------------------------------------ the machine
\* New(): a zero Epoch is replaced by the default
New(conf) == IF conf.Epoch = 0 THEN [conf EXCEPT !.Epoch = epochLength] ELSE conf

PoAConfig ==
    [Period |-> 1, Epoch |-> 0, Span |-> 0, ErawanBlock |-> 2, ChaophrayaBlock |-> Nil]

EpochConfig ==
    [Period |-> 1, Epoch |-> 3, Span |-> 0, ErawanBlock |-> Nil, ChaophrayaBlock |-> Nil]

PoSConfig ==
    [Period |-> 1, Epoch |-> 3, Span |-> 2, ErawanBlock |-> 0, ChaophrayaBlock |-> 2]

GenesisHeaders ==
    {[Number |-> 0, Signer |-> ZeroAddr, Coinbase |-> ZeroAddr,
      MixDigest |-> EmptyHash, Nonce |-> nonceDropVote, Difficulty |-> 1,
      Extra |-> SetToSortedSeq(1..k), ExtraRem |-> 0] : k \in 1..NumAddr}

NoResult ==
    [op |-> "none", err |-> NoError, header |-> NilHeader, snap |-> NilSnap,
     mined |-> FALSE]

\* the snapshot of the chain head, folded from the genesis
HeadSnapshot == apply(newSnapshot(0, genesis.Extra), chain)

\* the answers of GetCurrentValidators: Span validators and the contracts
ContractAnswers ==
    {[err |-> FALSE,
      validators |-> <<[Address |-> a, VotingPower |-> 10],
                       [Address |-> 2, VotingPower |-> 10]>>,
      contracts |-> [StakeManager |-> ZeroAddr, SlashManager |-> ZeroAddr,
                     OfficialNode |-> NumAddr]] : a \in {1, 2}}

\* the votes a header of the engine specifications may carry: none, drop
\* address 1, add the last address
Votes == {<<ZeroAddr, nonceDropVote>>, <<1, nonceDropVote>>, <<NumAddr, nonceAuthVote>>}

\* the middle sections a peer may send: none, or what an honest producer
\* embeds at this height
ExtraChoices(number) ==
    {<<>>}
    \cup (IF HeadSnapshot.err = NoError
          THEN {signers(HeadSnapshot.snap)} ELSE {})
    \cup (IF needToUpdateValidatorList(number)
          THEN {validatorPayload(cv) : cv \in ContractAnswers} ELSE {})

HeaderInputs(number) ==
    {[Number |-> number, Signer |-> sg,
      Coinbase |-> IF IsErawan(number) THEN ZeroAddr ELSE vt[1],
      MixDigest |-> IF IsErawan(number) THEN <<0, vt[1]>> ELSE EmptyHash,
      Nonce |-> vt[2], Difficulty |-> df, Extra |-> ex, ExtraRem |-> 0] :
        sg \in Addr, vt \in Votes, df \in {diffNoTurn, diffInTurn},
        ex \in ExtraChoices(number)}

InitWith(conf) ==
    /\ config = New(conf)
    /\ genesis \in GenesisHeaders
    /\ chain = <<>>
    /\ dbHead = 0
    /\ recents = EmptyMap
    /\ store = EmptyMap
    /\ result = NoResult
    /\ tally = NilSnap
    /\ state = GenesisState

Init == \E conf \in {PoAConfig, PoSConfig} : InitWith(conf)

\* an engine call returns r: the cache and the store are as the call left
\* them and the result waits for the importer
Returned(op, header, r, mined) ==
    /\ recents' = r.recents
    /\ store' = r.store
    /\ result' = [op |-> op, err |-> r.err, header |-> header, snap |-> r.snap,
                   mined |-> mined]

\* VerifyHeader: the next header on its own, all its ancestors in the
\* database
VerifyHeader(header) ==
    /\ result.op = "none"
    /\ Len(chain) < MaxHeight
    /\ dbHead = Len(chain)
    /\ Returned("verifyHeader", header, verifyHeader(header, <<>>), FALSE)
    /\ UNCHANGED <<config, genesis, chain, dbHead, tally, state>>

\* the local signer val prepares and seals the next block
NoAnswer == [err |-> TRUE]

\* Seal on the header p that Prepare returned: refused, or signed by val
sealed(p, val, sl) ==
    [err |-> IF p.err # NoError THEN p.err
             ELSE sealRefusal(p.snap, p.header, val, sl),
     snap |-> p.snap, recents |-> p.recents, store |-> p.store]

sealedHeader(p, val, sl) ==
    IF p.err = NoError /\ sealRefusal(p.snap, p.header, val, sl) = NoError
    THEN [p.header EXCEPT !.Signer = val]
    ELSE p.header

MineOn(p, val, sl) ==
    Returned("Seal", sealedHeader(p, val, sl), sealed(p, val, sl), TRUE)

\* the proposals Prepare may pick from on the parent snapshot s
validProposals(s, number, proposals) ==
    IF s.err # NoError \/ isOnEpochStart(number) THEN {ZeroAddr}
    ELSE IF {a \in DOMAIN proposals : validVote(s.snap, a, proposals[a])} = {}
    THEN {ZeroAddr}
    ELSE {a \in DOMAIN proposals : validVote(s.snap, a, proposals[a])}

SlashAnswers(number) ==
    IF IsChaophraya(number) THEN {"fails", "slashed", "clear"} ELSE {"clear"}

Mine(val, proposals) ==
    /\ result.op = "none"
    /\ Len(chain) < MaxHeight
    /\ dbHead = Len(chain)
    /\ \E pick \in validProposals(snapshot(Len(chain), <<>>), Len(chain) + 1, proposals),
          cv \in (IF needToUpdateValidatorList(Len(chain) + 1)
                  THEN ContractAnswers \cup {NoAnswer} ELSE {NoAnswer}),
          sl \in SlashAnswers(Len(chain) + 1) :
         MineOn(Prepare([Number |-> Len(chain) + 1, Signer |-> ZeroAddr,
                         Coinbase |-> val, MixDigest |-> EmptyHash,
                         Nonce |-> nonceDropVote, Difficulty |-> 0,
                         Extra |-> <<>>, ExtraRem |-> 0],
                        val, proposals, pick, cv),
                val, sl)
    /\ UNCHANGED <<config, genesis, chain, dbHead, tally, state>>

\* the sealed block comes back through the import path
VerifyMined ==
    /\ result.op = "Seal"
    /\ result.err = NoError
    /\ Returned("verifyHeader", result.header, verifyHeader(result.header, <<>>), TRUE)
    /\ UNCHANGED <<config, genesis, chain, dbHead, tally, state>>

\* the result is handed to the importer: a header accepted on its own is
\* written to the chain database, a header accepted inside a batch waits
\* there for the rest of the batch
Deliver ==
    /\ result.op # "none"
    /\ ~(result.op = "Seal" /\ result.err = NoError)
    /\ IF result.op = "verifyHeader" /\ result.err = NoError
       THEN chain' = Append(chain, result.header) /\ dbHead' = Len(chain) + 1
       ELSE IF result.op = "VerifyHeaders" /\ result.err = NoError
       THEN chain' = Append(chain, result.header) /\ UNCHANGED dbHead
       ELSE UNCHANGED <<chain, dbHead>>
    /\ result' = NoResult
    /\ UNCHANGED <<config, genesis, recents, store, tally, state>>

\* engine.snapshot at the chain head (CalcDifficulty, the snapshot API)
SnapshotAtHead ==
    /\ result.op = "none"
    /\ dbHead = Len(chain)
    /\ Returned("snapshot", NilHeader, snapshot(Len(chain), <<>>), FALSE)
    /\ UNCHANGED <<config, genesis, chain, dbHead, tally, state>>

ProposalSets ==
    {EmptyMap, [a \in {1} |-> FALSE], [a \in {NumAddr} |-> TRUE]}

Next ==
    \/ /\ result.op = "none"
       /\ \E header \in HeaderInputs(Len(chain) + 1) : VerifyHeader(header)
    \/ \E val \in Addr, proposals \in ProposalSets : Mine(val, proposals)
    \/ VerifyMined
    \/ Deliver
    \/ SnapshotAtHead

Spec == Init /\ [][Next]_vars

\* Prepare on its own: the miner hands Prepare a header whose Coinbase is
\* its etherbase, which need not be the local signer val; the result keeps
\* what the caller passed and what Prepare picked
PrepareHeader(val, coinbase, proposals) ==
    /\ result.op = "none"
    /\ Len(chain) < MaxHeight
    /\ dbHead = Len(chain)
    /\ \E pick \in validProposals(snapshot(Len(chain), <<>>), Len(chain) + 1, proposals),
          cv \in (IF needToUpdateValidatorList(Len(chain) + 1)
                  THEN ContractAnswers ELSE {NoAnswer}) :
         LET p == Prepare([Number |-> Len(chain) + 1, Signer |-> ZeroAddr,
                           Coinbase |-> coinbase, MixDigest |-> EmptyHash,
                           Nonce |-> nonceDropVote, Difficulty |-> 0,
                           Extra |-> <<>>, ExtraRem |-> 0],
                          val, proposals, pick, cv)
         IN  /\ recents' = p.recents
             /\ store' = p.store
             /\ result' = [op |-> "Prepare", err |-> p.err, header |-> p.header,
                           snap |-> p.snap, mined |-> FALSE, val |-> val,
                           coinbase |-> coinbase, pick |-> pick]
    /\ UNCHANGED <<config, genesis, chain, dbHead, tally, state>>

SpecPrepare ==
    /\ Init
    /\ [][\/ /\ result.op = "none"
             /\ \E header \in HeaderInputs(Len(chain) + 1) : VerifyHeader(header)
          \/ \E val \in Addr, coinbase \in {ZeroAddr, 2, 3},
                proposals \in ProposalSets : PrepareHeader(val, coinbase, proposals)
          \/ Deliver]_vars

\* ------------------------------------------------- epoch starts at a span edge
\* The engine on chains where a height is at once an epoch start and a
\* validator-list update block: height 2 is the block before the Chaophraya
\* height in the first configuration and a PoSA block before a span first
\* block in the second
SpecTransition ==
    /\ \E conf \in {[PoSConfig EXCEPT !.Epoch = 2, !.ChaophrayaBlock = 3],
                    [PoSConfig EXCEPT !.Epoch = 2, !.Span = 3]} : InitWith(conf)
    /\ [][Next]_vars

\* ------------------------------------------------- the tallying machine
\* Headers are folded one at a time into the snapshot tally, starting from a
\* genesis snapshot; result keeps the last header applied and the snapshot
\* it was applied to.  A header that apply refuses leaves both alone.
Targets == {1, NumAddr}

TallyVotes ==
    {<<ZeroAddr, nonceDropVote>>}
    \cup {<<t, nc>> : t \in Targets, nc \in {nonceAuthVote, nonceDropVote}}

TallyInputs(number) ==
    {[Number |-> number, Signer |-> sg,
      Coinbase |-> IF IsErawan(number) THEN ZeroAddr ELSE vt[1],
      MixDigest |-> IF IsErawan(number) THEN <<0, vt[1]>> ELSE EmptyHash,
      Nonce |-> vt[2], Difficulty |-> diffNoTurn, Extra |-> ex, ExtraRem |-> 0] :
        sg \in Addr, vt \in TallyVotes,
        ex \in IF needToUpdateValidatorList(number)
               THEN {<<>>} \cup {validatorPayload(cv) : cv \in ContractAnswers}
               ELSE {<<>>}}

InitTallyWith(conf) ==
    /\ config = New(conf)
    /\ genesis \in GenesisHeaders
    /\ chain = <<>>
    /\ dbHead = 0
    /\ recents = EmptyMap
    /\ store = EmptyMap
    /\ result = NoResult
    /\ tally = newSnapshot(0, genesis.Extra)
    /\ state = GenesisState

InitTally == InitTallyWith(PoAConfig)

InitEpoch == InitTallyWith(EpochConfig)

InitSpan == \E conf \in {PoAConfig, PoSConfig} : InitTallyWith(conf)

Apply(header) ==
    /\ tally.Number < MaxBlocks
    /\ LET r == apply(tally, <<header>>)
       IN  /\ r.err = NoError
           /\ tally' = r.snap
           /\ result' = [op |-> "apply", err |-> NoError, header |-> header,
                          snap |-> tally, mined |-> FALSE]
    /\ UNCHANGED <<config, genesis, chain, dbHead, recents, store, state>>

NextTally == \E header \in TallyInputs(tally.Number + 1) : Apply(header)

SpecTally == InitTally /\ [][NextTally]_vars

SpecEpoch == InitEpoch /\ [][NextTally]_vars

SpecSpan == InitSpan /\ [][NextTally]_vars

\* ------------------------------------------------- the batch importer
\* Headers arrive in batches (VerifyHeaders): each header of a batch is
\* verified with the headers before it in the batch as parents, InsertChain
\* writes the batch to the chain database, and a restart loses the snapshot
\* cache and the batch in flight.  Signers sign without voting.
BatchConfig ==
    [Period |-> 1, Epoch |-> 2, Span |-> 0, ErawanBlock |-> Nil, ChaophrayaBlock |-> Nil]

BatchGenesis ==
    {[Number |-> 0, Signer |-> ZeroAddr, Coinbase |-> ZeroAddr,
      MixDigest |-> EmptyHash, Nonce |-> nonceDropVote, Difficulty |-> 1,
      Extra |-> SetToSortedSeq(1..k), ExtraRem |-> 0] : k \in {4, MaxSigners}}

BatchInputs(number) ==
    {[Number |-> number, Signer |-> sg, Coinbase |-> ZeroAddr,
      MixDigest |-> EmptyHash, Nonce |-> nonceDropVote, Difficulty |-> df,
      Extra |-> ex, ExtraRem |-> 0] :
        sg \in 1..MaxSigners, df \in {diffNoTurn, diffInTurn},
        ex \in {<<>>, genesis.Extra}}

InitImport ==
    /\ config = New(BatchConfig)
    /\ genesis \in BatchGenesis
    /\ chain = <<>>
    /\ dbHead = 0
    /\ recents = EmptyMap
    /\ store = EmptyMap
    /\ result = NoResult
    /\ tally = NilSnap
    /\ state = GenesisState

\* VerifyHeaders, one header of the batch at a time
VerifyHeaders(header) ==
    /\ result.op = "none"
    /\ Len(chain) < MaxImport
    /\ Returned("VerifyHeaders", header,
                verifyHeader(header, SubSeq(chain, dbHead + 1, Len(chain))), FALSE)
    /\ UNCHANGED <<config, genesis, chain, dbHead, tally, state>>

\* the importer writes the verified batch to the chain database
InsertChain ==
    /\ result.op = "none"
    /\ dbHead < Len(chain)
    /\ dbHead' = Len(chain)
    /\ UNCHANGED <<config, genesis, chain, recents, store, result, tally, state>>

\* the node restarts: New() starts with an empty snapshot cache
Restart ==
    /\ result.op = "none"
    /\ recents # EmptyMap
    /\ recents' = EmptyMap
    /\ chain' = SubSeq(chain, 1, dbHead)
    /\ UNCHANGED <<config, genesis, dbHead, store, result, tally, state>>

NextImport ==
    \/ /\ result.op = "none"
       /\ \E header \in BatchInputs(Len(chain) + 1) : VerifyHeaders(header)
    \/ Deliver
    \/ InsertChain
    \/ Restart

SpecImport == InitImport /\ [][NextImport]_vars

\* ------------------------------------------------- the block processor
\* Blocks are processed one at a time on top of the chain head: the
\* snapshot tally is the parent's, state the parent's state.  A received
\* block whose header passes seal verification is finalized with Finalize, a
\* block of the local validator with FinalizeAndAssemble; WriteBlock commits
\* the state and advances the snapshot when finalization succeeded and, for
\* a block of the local validator, Seal sent it.
MaxIncoming == 1

MaxFinalized == 3

FinalizeConfig ==
    [Period |-> 1, Epoch |-> 0, Span |-> 4, ErawanBlock |-> 0, ChaophrayaBlock |-> 2]

\* the answers of GetCurrentValidators: Span validators and the contracts
SpanAnswers ==
    {[err |-> FALSE,
      validators |-> [i \in 1..config.Span |->
                        [Address |-> IF i = 1 THEN a ELSE 2, VotingPower |-> 10]],
      contracts |-> [StakeManager |-> StakeManagerAddr,
                     SlashManager |-> SlashManagerAddr,
                     OfficialNode |-> NumAddr]] : a \in {1, 2}}

\* the validators selectNextValidatorSet may return for the next span
NextValidators == {[i \in 1..config.Span |-> a] : a \in {1, 2}}

\* the EVM calls that fail while the block number is finalized: none, or one
\* of the calls a PoSA finalizer may make at that height
EvmFailures(number) ==
    {{}} \cup (IF IsChaophraya(number) THEN {{"slash"}, {"distributeReward"}} ELSE {})
         \cup (IF isSpanCommitmentBlock(number) THEN {{"commitSpan"}} ELSE {})

Producers == {1, 2, NumAddr}

\* the blocks a peer may send: the coinbase is the signer or the OfficialNode
BlockInputs(number) ==
    {h \in [Number : {number}, Signer : Producers, Coinbase : Producers,
            MixDigest : {<<0, ZeroAddr>>}, Nonce : {nonceDropVote},
            Difficulty : {diffNoTurn, diffInTurn, diffInTurn + 1},
            Extra : IF needToUpdateValidatorList(number)
                    THEN {validatorPayload(cv) : cv \in SpanAnswers}
                    ELSE {<<>>},
            ExtraRem : {0}] : h.Coinbase \in {h.Signer, NumAddr}}

\* the state after the block's own transactions: their fees are collected
\* at the system address
Collected(incoming) ==
    [state EXCEPT !.balance[SystemAddress] = @ + incoming]

\* the system-transaction streams a peer may send with a block: the one its
\* producer emitted (expected), none, one short, one too many, reversed, the
\* first or the last with another value; all are sent by the coinbase to a
\* system contract at gas price 0, as IsSystemTransaction requires
Streams(expected, coinbase) ==
    {expected, <<>>, Reverse(expected),
     Append(expected, [Nonce |-> 0, To |-> ValidatorContract, Value |-> 0,
                       Gas |-> HalfMaxUint64, GasPrice |-> 0,
                       Data |-> <<"deposit">>, From |-> coinbase])}
    \cup (IF expected = <<>> THEN {}
          ELSE {SubSeq(expected, 1, Len(expected) - 1),
                <<[expected[1] EXCEPT !.Value = @ + 1]>> \o Tail(expected),
                [expected EXCEPT ![Len(expected)].Value = @ + 1]})

InitFinalize ==
    /\ InitTallyWith(FinalizeConfig)
    /\ Len(genesis.Extra) <= 2

\* the contract answers and the selection a block at this height asks for
answersAt(number) ==
    IF needToUpdateValidatorList(number) THEN SpanAnswers ELSE {NoAnswer}

selectionsAt(number) ==
    IF isSpanCommitmentBlock(number) THEN NextValidators ELSE {<<>>}

\* the finalization context r of the block header is handed to the block
\* processor
Finalized(op, header, before, systemTxs, validatorBytes, evm, r) ==
    result' = [op |-> op, err |-> r.err, header |-> header, snap |-> tally,
               mined |-> op = "FinalizeAndAssemble", before |-> before,
               systemTxs |-> systemTxs, selected |-> validatorBytes,
               evm |-> evm, txs |-> r.txs, received |-> r.received,
               state |-> r.state]

\* a received block is finalized
FinalizeBlock(header, cv, validatorBytes, incoming, evm) ==
    /\ result.op = "none"
    /\ tally.Number < MaxFinalized
    /\ verifySignersAndSeal(tally, header) = NoError
    /\ apply(tally, <<header>>).err = NoError
    /\ \E systemTxs \in Streams(FinalizeAndAssemble(header, Collected(incoming),
                                    tally, validatorBytes, header.Coinbase, {}).txs,
                                header.Coinbase) :
          /\ evm = {} \/ systemTxs = FinalizeAndAssemble(header, Collected(incoming),
                                        tally, validatorBytes, header.Coinbase, {}).txs
          /\ Finalized("Finalize", header, Collected(incoming), systemTxs,
                       validatorBytes, evm,
                       Finalize(header, Collected(incoming), systemTxs, tally, cv,
                                validatorBytes, ZeroAddr, evm))
    /\ UNCHANGED <<config, genesis, chain, dbHead, recents, store, tally, state>>

\* the header Prepare builds for the local validator val
prepared(number, val, cv) ==
    [Number |-> number, Signer |-> val, Coinbase |-> val,
     MixDigest |-> <<0, ZeroAddr>>, Nonce |-> nonceDropVote,
     Difficulty |-> calcDifficulty(tally, val),
     Extra |-> IF needToUpdateValidatorList(number) THEN validatorPayload(cv)
               ELSE <<>>,
     ExtraRem |-> 0]

\* what Seal learns from the SlashManager about the in-turn signer
slashAnswer(header) ==
    IF IsSlashed(state, getInturnSigner(tally, header.Number),
                 IF isSpanFirstBlock(header.Number)
                 THEN GetCurrentSpan(header) + 1 ELSE GetCurrentSpan(header))
    THEN "slashed" ELSE "clear"

\* the local validator val assembles the next block, before it is sealed
AssembleBlock(val, cv, validatorBytes, incoming, evm) ==
    /\ result.op = "none"
    /\ tally.Number < MaxFinalized
    /\ Finalized("FinalizeAndAssemble", prepared(tally.Number + 1, val, cv),
                 Collected(incoming), <<>>, validatorBytes, evm,
                 FinalizeAndAssemble(prepared(tally.Number + 1, val, cv),
                                     Collected(incoming), tally, validatorBytes,
                                     val, evm))
    /\ UNCHANGED <<config, genesis, chain, dbHead, recents, store, tally, state>>

\* the block processor writes a finalized block and drops a rejected one; an
\* assembled block is written once Seal has signed and sent it
WriteBlock ==
    /\ result.op \in {"Finalize", "FinalizeAndAssemble"}
    /\ IF /\ result.err = NoError
          /\ result.mined =>
                /\ sealRefusal(tally, result.header, result.header.Coinbase,
                               slashAnswer(result.header)) = NoError
                /\ apply(tally, <<result.header>>).err = NoError
       THEN /\ state' = result.state
            /\ tally' = apply(tally, <<result.header>>).snap
       ELSE UNCHANGED <<tally, state>>
    /\ result' = NoResult
    /\ UNCHANGED <<config, genesis, chain, dbHead, recents, store>>

NextFinalize ==
    \/ \E header \in BlockInputs(tally.Number + 1),
          cv \in answersAt(tally.Number + 1) \cup {NoAnswer},
          validatorBytes \in selectionsAt(tally.Number + 1),
          incoming \in {0, MaxIncoming},
          evm \in EvmFailures(tally.Number + 1) :
         FinalizeBlock(header, cv, validatorBytes, incoming, evm)
    \/ \E val \in Producers, cv \in answersAt(tally.Number + 1),
          validatorBytes \in selectionsAt(tally.Number + 1),
          incoming \in {0, MaxIncoming},
          evm \in EvmFailures(tally.Number + 1) :
         AssembleBlock(val, cv, validatorBytes, incoming, evm)
    \/ WriteBlock

SpecFinalize == InitFinalize /\ [][NextFinalize]_vars

\* ------------------------------------------------- validator-list updates
\* The blocks a peer may send around a validator-list update: on an update
\* block the payload is one a contract answer gives, one with a single
\* validator record, or one naming another OfficialNode
UpdateInputs(number) ==
    [Number : {number}, Signer : Producers, Coinbase : Producers,
     MixDigest : {<<0, ZeroAddr>>}, Nonce : {nonceDropVote},
     Difficulty : {diffNoTurn, diffInTurn},
     Extra : IF needToUpdateValidatorList(number)
             THEN {validatorPayload(cv) : cv \in SpanAnswers}
                  \cup {validatorPayload([cv EXCEPT !.validators = SubSeq(@, 1, 1)]) :
                          cv \in SpanAnswers}
                  \cup {validatorPayload([cv EXCEPT !.contracts.OfficialNode = 1]) :
                          cv \in SpanAnswers}
             ELSE {<<>>},
     ExtraRem : {0}]

SpecUpdate ==
    /\ InitFinalize
    /\ [][\/ \E header \in UpdateInputs(tally.Number + 1),
                 cv \in answersAt(tally.Number + 1),
                 validatorBytes \in selectionsAt(tally.Number + 1) :
                FinalizeBlock(header, cv, validatorBytes, 0, {})
          \/ WriteBlock]_vars


\* ------------------------------------------------------------ the sealer
\* Seal signs the block and starts a goroutine that waits for the block's
\* time, in PoSA mode for the fallback delay too, and then sends the block
\* on the results channel.  result holds the goroutine g: pc is where it
\* stands ("delay": about to enter the first select, "delayWait": parked in
\* it, "fallback" and "fallbackWait": the same for the second select,
\* "blocked": in <-stop, "send", "ended"), stop whether the stop channel is
\* closed, late whether the block's time has passed when Seal is called,
\* early whether stop was closed while a wait had not elapsed, sent whether
\* the block was put on the results channel.  time.After starts when its
\* select is entered: a wait of no duration is over at once, a longer one
\* while the goroutine is parked.

\* the goroutine after the wait it is in has elapsed
afterWaitAnyone(g) ==
    IF /\ g.pc \in {"delay", "delayWait"}
       /\ IsChaophraya(g.header.Number)
       /\ ~isInturnDifficulty(g.header.Difficulty) \/ g.slashed
    THEN [g EXCEPT !.pc = "fallback", !.early = @ \/ (g.stop /\ ~g.slashed)]
    ELSE [g EXCEPT !.pc = "send"]

afterWait(g) ==
    IF /\ g.pc \in {"delay", "delayWait"}
       /\ IsChaophraya(g.header.Number)
       /\ ~isInturnDifficulty(g.header.Difficulty) \/ g.slashed
    THEN [g EXCEPT !.pc = "fallback", !.early = @ \/ (g.stop /\ ~g.slashed)]
    ELSE IF /\ g.pc \in {"fallback", "fallbackWait"}
            /\ g.val # g.snap.SystemContracts.OfficialNode
    THEN [g EXCEPT !.pc = "blocked"]
    ELSE [g EXCEPT !.pc = "send"]

\* the steps the goroutine g can take by itself: entering a select (when
\* both cases are ready either is taken), leaving <-stop, the send that is
\* dropped when the miner does not read
sealRoutineDeaf(g) ==
    LET elapsed == IF g.pc = "delay" THEN g.late ELSE g.slashed
    IN  CASE g.pc \in {"delay", "fallback"} ->
                 IF elapsed THEN {afterWait(g)}
                 ELSE {[g EXCEPT !.pc = IF g.pc = "delay" THEN "delayWait"
                                        ELSE "fallbackWait"]}
          [] g.pc = "blocked" -> IF g.stop THEN {[g EXCEPT !.pc = "ended"]} ELSE {}
          [] g.pc = "send" -> {[g EXCEPT !.pc = "ended", !.sent = b] : b \in BOOLEAN}
          [] OTHER -> {}

sealRoutine(g) ==
    LET elapsed == IF g.pc = "delay" THEN g.late ELSE g.slashed
    IN  CASE g.pc \in {"delay", "fallback"} ->
                 (IF g.stop THEN {[g EXCEPT !.pc = "ended"]} ELSE {})
                 \cup (IF elapsed THEN {afterWait(g)} ELSE {})
                 \cup (IF ~g.stop /\ ~elapsed
                       THEN {[g EXCEPT !.pc = IF g.pc = "delay" THEN "delayWait"
                                              ELSE "fallbackWait"]}
                       ELSE {})
          [] g.pc = "blocked" -> IF g.stop THEN {[g EXCEPT !.pc = "ended"]} ELSE {}
          [] g.pc = "send" -> {[g EXCEPT !.pc = "ended", !.sent = b] : b \in BOOLEAN}
          [] OTHER -> {}

\* Seal on the block Prepare built for val: refused, or signed and handed to
\* the goroutine.  sl is the SlashManager's answer about the in-turn signer,
\* late whether the block's time has passed, stopped whether stop is closed
\* already
SealBlock(val, cv, sl, late, stopped) ==
    LET header == [prepared(tally.Number + 1, val, cv) EXCEPT !.Signer = ZeroAddr]
        refusal == sealRefusal(tally, header, val, sl)
        started == refusal \in {NoError, "sealed block not sent"}
    IN  /\ result.op = "none"
        /\ result' = [op |-> "Seal", err |-> IF started THEN NoError ELSE refusal,
                      header |-> IF started THEN [header EXCEPT !.Signer = val]
                                 ELSE header,
                      snap |-> tally, mined |-> TRUE, val |-> val,
                      slashed |-> sl = "slashed", late |-> late,
                      pc |-> IF started THEN "delay" ELSE "ended",
                      stop |-> stopped, early |-> started /\ stopped /\ ~late,
                      sent |-> FALSE]
        /\ UNCHANGED <<config, genesis, chain, dbHead, recents, store, tally, state>>

\* the goroutine takes a step
SealStep ==
    /\ result.op = "Seal"
    /\ result' \in sealRoutine(result)
    /\ UNCHANGED <<config, genesis, chain, dbHead, recents, store, tally, state>>

NextSeal ==
    \/ \E val \in Producers, cv \in answersAt(tally.Number + 1),
          sl \in SlashAnswers(tally.Number + 1), late \in BOOLEAN,
          stopped \in BOOLEAN :
         SealBlock(val, cv, sl, late, stopped)
    \/ SealStep
    \* the miner closes stop: a goroutine parked in a select or in <-stop ends
    \/ /\ result.op = "Seal"
       /\ ~result.stop
       /\ result' = [result EXCEPT
             !.stop = TRUE,
             !.early = @ \/ result.pc \in {"delayWait", "fallbackWait"}
                         \/ (result.pc = "delay" /\ ~result.late)
                         \/ (result.pc = "fallback" /\ ~result.slashed),
             !.pc = IF @ \in {"delayWait", "fallbackWait", "blocked"}
                    THEN "ended" ELSE @]
       /\ UNCHANGED <<config, genesis, chain, dbHead, recents, store, tally, state>>
    \* the timer of the select the goroutine is parked in fires
    \/ /\ result.op = "Seal"
       /\ result.pc \in {"delayWait", "fallbackWait"}
       /\ result' = afterWait(result)
       /\ UNCHANGED <<config, genesis, chain, dbHead, recents, store, tally, state>>
    \* the goroutine has ended: the miner moves on
    \/ /\ result.op = "Seal"
       /\ result.pc = "ended"
       /\ result' = NoResult
       /\ UNCHANGED <<config, genesis, chain, dbHead, recents, store, tally, state>>
    \* a block is imported
    \/ \E header \in BlockInputs(tally.Number + 1) :
          /\ result.op = "none"
          /\ tally.Number < MaxHeight
          /\ verifySignersAndSeal(tally, header) = NoError
          /\ apply(tally, <<header>>).err = NoError
          /\ tally' = apply(tally, <<header>>).snap
          /\ UNCHANGED <<config, genesis, chain, dbHead, recents, store, result, state>>

\* the scheduler runs a goroutine that can take a step
SpecSeal ==
    /\ InitTallyWith(PoSConfig)
    /\ [][NextSeal]_vars
    /\ WF_vars(SealStep)

\* ------------------------------------------------- votes across Erawan
\* A chain of blocks is produced by local signers with their proposals on a
\* chain whose Erawan height is 2, then the same signers with the same
\* proposals produce a chain from the same genesis where Erawan never
\* activates.  result keeps the producers of the first chain (producers), those
\* still to come in the second (left), the snapshot the first chain ended
\* with (reference) and the address the last producer voted for (vote).
MaxVotes == 3

\* val prepares and seals the next block and the block joins the chain
Voted(val, proposals, run, producers, left, reference) ==
    /\ \E pick \in validProposals(snapshot(Len(chain), <<>>), Len(chain) + 1, proposals) :
         LET p == Prepare([Number |-> Len(chain) + 1, Signer |-> ZeroAddr,
                           Coinbase |-> val, MixDigest |-> EmptyHash,
                           Nonce |-> nonceDropVote, Difficulty |-> 0,
                           Extra |-> <<>>, ExtraRem |-> 0],
                          val, proposals, pick, NoAnswer)
             header == [p.header EXCEPT !.Signer = val]
             r == apply(p.snap, <<header>>)
         IN  /\ p.err = NoError
             /\ sealRefusal(p.snap, p.header, val, "clear") = NoError
             /\ run = "crossing" => r.err = NoError
             /\ chain' = Append(chain, header)
             /\ dbHead' = Len(chain) + 1
             /\ recents' = p.recents
             /\ store' = p.store
             /\ tally' = IF r.err = NoError THEN r.snap ELSE tally
             /\ result' = [op |-> "Prepare", err |-> r.err, header |-> header,
                            snap |-> p.snap, mined |-> TRUE, run |-> run,
                            producers |-> producers, left |-> left,
                            reference |-> reference, vote |-> pick]
    /\ UNCHANGED <<config, genesis, state>>

SpecErawan ==
    /\ InitTallyWith(PoAConfig)
    /\ [][\/ \E val \in Producers, proposals \in ProposalSets :
                /\ IF result.op = "none" THEN TRUE ELSE result.run = "crossing"
                /\ Len(chain) < MaxVotes
                /\ Voted(val, proposals, "crossing",
                         Append(IF result.op = "none" THEN <<>> ELSE result.producers,
                                <<val, proposals>>),
                         <<>>, NilSnap)
          \/ \E header \in HeaderInputs(Len(chain) + 1), digest \in {<<0, 1>>, <<1, 0>>} :
                /\ IF result.op = "none" THEN TRUE
                   ELSE result.op = "Prepare" /\ result.run = "crossing"
                /\ Len(chain) < MaxHeight
                /\ header.Extra = <<>>
                /\ header.Signer = 1
                /\ result' = [op |-> "verifyHeader",
                               err |-> verifyHeader([header EXCEPT !.MixDigest = digest],
                                                    <<>>).err,
                               header |-> [header EXCEPT !.MixDigest = digest],
                               snap |-> NilSnap, mined |-> FALSE, run |-> "crossing",
                               producers |-> IF result.op = "none" THEN <<>>
                                             ELSE result.producers,
                               left |-> <<>>, reference |-> NilSnap,
                               vote |-> ZeroAddr]
                /\ UNCHANGED <<config, genesis, chain, dbHead, recents, store,
                               tally, state>>
          \/ /\ result.op = "Prepare" /\ result.run = "crossing"
             /\ config' = New([PoAConfig EXCEPT !.ErawanBlock = Nil])
             /\ chain' = <<>>
             /\ dbHead' = 0
             /\ recents' = EmptyMap
             /\ store' = EmptyMap
             /\ tally' = newSnapshot(0, genesis.Extra)
             /\ result' = [result EXCEPT !.op = "restart", !.run = "plain",
                                         !.left = result.producers,
                                         !.reference = tally]
             /\ UNCHANGED <<genesis, state>>
          \/ /\ result.op \in {"restart", "Prepare"} /\ result.run = "plain"
             /\ result.err = NoError
             /\ result.left # <<>>
             /\ Voted(result.left[1][1], result.left[1][2], "plain", result.producers,
                      Tail(result.left), result.reference)]_vars

\* ------------------------------------------------- the validator selection
\* rand.New(rand.NewSource(seed)) is a generator private to the call: its
\* stream is a function of the seed alone.  It is kept as a full-period
\* congruential generator over RandModulus values in place of uint64.
RandModulus == 16

MaxSeed == 1

\* the lists GetEligibleValidators may report, in the contract's order
EligibleLists ==
    {<<[Address |-> 1, VotingPower |-> 0]>>,
     <<[Address |-> 1, VotingPower |-> 2], [Address |-> 2, VotingPower |-> 1]>>,
     <<[Address |-> 2, VotingPower |-> 1], [Address |-> 1, VotingPower |-> 2]>>}

\* selectNextValidatorSet drawing from a generator shared by all calls of the
\* node: its position is the number of selections made so far
selectNextValidatorSetShared(seed, newValidators) ==
    LET n == Len(newValidators)
        MaxUint64 == RandModulus - 1
        Uint64(x) == (5 * x + 3) % RandModulus
        \* createWeightedRanges: the cumulative voting powers and their total
        RECURSIVE cumulative(_)
        cumulative(i) == IF i = 0 THEN 0
                         ELSE cumulative(i - 1) + newValidators[i].VotingPower
        weightedRanges == [i \in 1..n |-> cumulative(i)]
        totalVotingPower == cumulative(n)
        \* randomRangeInclusive(1, max, r) from the generator at x: the value
        \* and the generator after the draws
        RECURSIVE accepted(_, _)
        accepted(x, maxAllowedValue) ==
            IF Uint64(x) >= maxAllowedValue
            THEN accepted(Uint64(x), maxAllowedValue) ELSE Uint64(x)
        randomRangeInclusive(min, max, x) ==
            LET rangeLength == max - min + 1
                maxAllowedValue == (MaxUint64 - (MaxUint64 % rangeLength)) - 1
                randomValue == accepted(x, maxAllowedValue)
            IN  IF max <= min THEN [value |-> max, r |-> x]
                ELSE [value |-> min + (randomValue % rangeLength), r |-> randomValue]
        \* binarySearch: the index, from 0, of the first range that reaches
        \* search; -1 in an empty array
        RECURSIVE binarySearch(_, _, _)
        binarySearch(l, r, search) ==
            IF n = 0 THEN -1
            ELSE IF l < r
            THEN IF weightedRanges[(l + r) \div 2 + 1] >= search
                 THEN binarySearch(l, (l + r) \div 2, search)
                 ELSE binarySearch((l + r) \div 2 + 1, r, search)
            ELSE l
        RECURSIVE selectedProducers(_, _)
        selectedProducers(i, x) ==
            IF i = config.Span THEN <<>>
            ELSE LET t == randomRangeInclusive(1, totalVotingPower, x)
                 IN  <<newValidators[binarySearch(0, n - 1, t.value) + 1]>>
                     \o selectedProducers(i + 1, t.r)
    IN  selectedProducers(0, IF result.op = "none" THEN 0
                             ELSE Cardinality(DOMAIN result.known) % RandModulus)

\* selectNextValidatorSet: seed is the leading 8 bytes of the seed block's
\* hash, newValidators the answer of GetEligibleValidators.  Span validators
\* are drawn by weight; the result is the sequence drawn.
selectNextValidatorSet(seed, newValidators) ==
    LET n == Len(newValidators)
        MaxUint64 == RandModulus - 1
        Uint64(x) == (5 * x + 3) % RandModulus
        \* createWeightedRanges: the cumulative voting powers and their total
        RECURSIVE cumulative(_)
        cumulative(i) == IF i = 0 THEN 0
                         ELSE cumulative(i - 1) + newValidators[i].VotingPower
        weightedRanges == [i \in 1..n |-> cumulative(i)]
        totalVotingPower == cumulative(n)
        \* randomRangeInclusive(1, max, r) from the generator at x: the value
        \* and the generator after the draws
        RECURSIVE accepted(_, _)
        accepted(x, maxAllowedValue) ==
            IF Uint64(x) >= maxAllowedValue
            THEN accepted(Uint64(x), maxAllowedValue) ELSE Uint64(x)
        randomRangeInclusive(min, max, x) ==
            LET rangeLength == max - min + 1
                maxAllowedValue == (MaxUint64 - (MaxUint64 % rangeLength)) - 1
                randomValue == accepted(x, maxAllowedValue)
            IN  IF max <= min THEN [value |-> max, r |-> x]
                ELSE [value |-> min + (randomValue % rangeLength), r |-> randomValue]
        \* binarySearch: the index, from 0, of the first range that reaches
        \* search; -1 in an empty array
        RECURSIVE binarySearch(_, _, _)
        binarySearch(l, r, search) ==
            IF n = 0 THEN -1
            ELSE IF l < r
            THEN IF weightedRanges[(l + r) \div 2 + 1] >= search
                 THEN binarySearch(l, (l + r) \div 2, search)
                 ELSE binarySearch((l + r) \div 2 + 1, r, search)
            ELSE l
        RECURSIVE selectedProducers(_, _)
        selectedProducers(i, x) ==
            IF i = config.Span THEN <<>>
            ELSE LET t == randomRangeInclusive(1, totalVotingPower, x)
                 IN  <<newValidators[binarySearch(0, n - 1, t.value) + 1]>>
                     \o selectedProducers(i + 1, t.r)
    IN  selectedProducers(0, seed)

\* a node selects the validators of the next span; result.known keeps what
\* every earlier selection returned, by its inputs
SelectValidators(seed, newValidators) ==
    /\ result' = [op |-> "selectNextValidatorSet", err |-> NoError,
                  header |-> NilHeader, snap |-> NilSnap, mined |-> FALSE,
                  seed |-> seed, eligible |-> newValidators,
                  selected |-> selectNextValidatorSet(seed, newValidators),
                  before |-> IF result.op = "none" THEN EmptyMap ELSE result.known,
                  known |-> MapPut(IF result.op = "none" THEN EmptyMap
                                   ELSE result.known,
                                   <<seed, newValidators>>,
                                   selectNextValidatorSet(seed, newValidators))]
    /\ UNCHANGED <<config, genesis, chain, dbHead, recents, store, tally, state>>

SpecSelect ==
    /\ InitTallyWith(FinalizeConfig)
    /\ [][\E seed \in 0..MaxSeed, newValidators \in EligibleLists :
            SelectValidators(seed, newValidators)]_vars

\* ------------------------------------------------------- refusals of Seal
\* Seal on any header the miner may hand it: number is 0 or the next
\* height, empty says that the block has no transactions.  A refused Seal
\* returns the error and starts no goroutine; the header keeps its empty
\* seal.
SealHeader(number, val, empty, cv, sl, late, stopped) ==
    LET header == [prepared(tally.Number + 1, val, cv) EXCEPT
                      !.Number = number, !.Signer = ZeroAddr]
        refusal == IF number # 0 /\ config.Period = 0 /\ empty
                   THEN "sealing paused while waiting for transactions"
                   ELSE sealRefusal(tally, header, val, sl)
        started == refusal \in {NoError, "sealed block not sent"}
    IN  /\ result.op = "none"
        /\ result' = [op |-> "Seal", err |-> IF started THEN NoError ELSE refusal,
                      header |-> IF started THEN [header EXCEPT !.Signer = val]
                                 ELSE header,
                      snap |-> tally, mined |-> TRUE, val |-> val,
                      slashed |-> sl = "slashed", late |-> late,
                      pc |-> IF started THEN "delay" ELSE "ended",
                      stop |-> stopped, early |-> started /\ stopped /\ ~late,
                      sent |-> FALSE, empty |-> empty]
        /\ UNCHANGED <<config, genesis, chain, dbHead, recents, store, tally, state>>

SpecRefuse ==
    /\ \E period \in {0, 1} :
          InitTallyWith([FinalizeConfig EXCEPT !.ChaophrayaBlock = 3,
                                               !.Period = period])
    /\ Len(genesis.Extra) <= 2
    /\ [][\/ NextSeal
          \/ \E number \in {0, tally.Number + 1}, val \in Producers,
                empty \in BOOLEAN, cv \in answersAt(tally.Number + 1),
                sl \in SlashAnswers(tally.Number + 1), late \in BOOLEAN,
                stopped \in BOOLEAN :
               SealHeader(number, val, empty, cv, sl, late, stopped)]_vars

\* ------------------------------------------------------- the weighted draw
MaxWeight == 5

\* randomRangeInclusive on one raw value randomValue of the generator:
\* whether the rejection loop lets it through, and the draw it then returns.
\* With max <= min nothing is drawn and max is returned.
rawDraw(min, max, randomValue) ==
    LET MaxUint64 == RandModulus - 1
        rangeLength == max - min + 1
        maxAllowedValue == (MaxUint64 - (MaxUint64 % rangeLength)) - 1
    IN  IF max <= min THEN [accepted |-> TRUE, value |-> max]
        ELSE [accepted |-> randomValue < maxAllowedValue,
              value |-> min + (randomValue % rangeLength)]

\* selectNextValidatorSet draws a target weight in [1, totalVotingPower]
\* from the raw value the generator gives
SpecDraw ==
    /\ InitTallyWith(FinalizeConfig)
    /\ [][\E totalVotingPower \in 1..MaxWeight, randomValue \in 0..(RandModulus - 1) :
             /\ result' = [op |-> "randomRangeInclusive", err |-> NoError,
                           totalVotingPower |-> totalVotingPower,
                           randomValue |-> randomValue,
                           draw |-> rawDraw(1, totalVotingPower, randomValue)]
             /\ UNCHANGED <<config, genesis, chain, dbHead, recents, store, tally,
                            state>>]_vars

\* ------------------------------------------------------ the signer identity
\* Authorize replaces the signer identity while other goroutines use the
\* engine.  result holds the fields and the goroutines: lock is c.lock (0
\* free, -1 held by Authorize, n > 0 held by n readers); val, signFn and
\* signTxFn are the fields of Clique, ccVal and ccSignTxFn those of the
\* ContractClient that Inject writes.  An address is 20 bytes and is not
\* written in one step: val and ccVal are two words.  A read made without
\* the lock while Authorize holds it is a data race (raced); it returns what
\* the memory holds at that step.
MaxIdentity == 2

\* the steps goroutine thread can take from g; id is the identity Authorize
\* is called with.  Prepare reads c.val for the Coinbase (at a PoSA height)
\* and again for the difficulty, and holds the read lock in between for the
\* proposals only; applyTransaction (mining) compares the sender with cc.val
\* and signs with cc.signTxFn; Seal copies val and signFn under the read
\* lock.
identityStep(g, thread, id) ==
    LET pc == g[thread].pc
        racing == g.lock = -1
    IN  CASE thread = "Authorize" ->
              CASE pc = "idle" ->
                       IF g.lock = 0
                       THEN {[g EXCEPT !.lock = -1,
                                       !.Authorize = [pc |-> "val", id |-> id]]}
                       ELSE {}
                [] pc = "val" ->
                       {[g EXCEPT !.val[1] = g.Authorize.id, !.Authorize.pc = "valRest"]}
                [] pc = "valRest" ->
                       {[g EXCEPT !.val[2] = g.Authorize.id, !.Authorize.pc = "signFn"]}
                [] pc = "signFn" ->
                       {[g EXCEPT !.signFn = g.Authorize.id, !.Authorize.pc = "signTxFn"]}
                [] pc = "signTxFn" ->
                       {[g EXCEPT !.signTxFn = g.Authorize.id, !.Authorize.pc = "Inject"]}
                [] pc = "Inject" ->
                       {[g EXCEPT !.ccVal[1] = g.val[1], !.Authorize.pc = "InjectRest"]}
                [] pc = "InjectRest" ->
                       {[g EXCEPT !.ccVal[2] = g.val[2], !.Authorize.pc = "InjectSignTxFn"]}
                [] pc = "InjectSignTxFn" ->
                       {[g EXCEPT !.ccSignTxFn = g.signTxFn, !.Authorize.pc = "Unlock"]}
                [] OTHER ->
                       {[g EXCEPT !.lock = 0, !.Authorize.pc = "idle"]}
          [] thread = "Prepare" ->
              CASE pc \in {"idle", "done"} ->
                       {[g EXCEPT !.Prepare = [pc |-> "Coinbase", Coinbase |-> <<0, 0>>,
                                               Difficulty |-> <<0, 0>>, raced |-> FALSE]]}
                [] pc = "Coinbase" ->
                       {[g EXCEPT !.Prepare.Coinbase = g.val, !.Prepare.raced = racing,
                                  !.Prepare.pc = "RLock"]}
                [] pc = "RLock" ->
                       IF g.lock >= 0
                       THEN {[g EXCEPT !.lock = @ + 1, !.Prepare.pc = "RUnlock"]}
                       ELSE {}
                [] pc = "RUnlock" ->
                       {[g EXCEPT !.lock = @ - 1, !.Prepare.pc = "Difficulty"]}
                [] OTHER ->
                       {[g EXCEPT !.Prepare.Difficulty = g.val,
                                  !.Prepare.raced = @ \/ racing,
                                  !.Prepare.pc = "done"]}
          [] thread = "applyTransaction" ->
              CASE pc \in {"idle", "done"} ->
                       {[g EXCEPT !.applyTransaction =
                            [pc |-> "val", val |-> <<0, 0>>, signTxFn |-> 0,
                             raced |-> FALSE]]}
                [] pc = "val" ->
                       {[g EXCEPT !.applyTransaction.val = g.ccVal,
                                  !.applyTransaction.raced = racing,
                                  !.applyTransaction.pc = "signTxFn"]}
                [] OTHER ->
                       {[g EXCEPT !.applyTransaction.signTxFn = g.ccSignTxFn,
                                  !.applyTransaction.raced = @ \/ racing,
                                  !.applyTransaction.pc = "done"]}
          [] OTHER ->
              CASE pc \in {"idle", "done"} ->
                       IF g.lock >= 0
                       THEN {[g EXCEPT !.lock = @ + 1,
                                       !.Seal = [pc |-> "copy", val |-> <<0, 0>>,
                                                 signFn |-> 0]]}
                       ELSE {}
                [] pc = "copy" ->
                       {[g EXCEPT !.Seal.val = g.val, !.Seal.signFn = g.signFn,
                                  !.Seal.pc = "RUnlock"]}
                [] OTHER ->
                       {[g EXCEPT !.lock = @ - 1, !.Seal.pc = "done"]}

\* the engine was authorized with identity 1 before the goroutines start
SpecIdentity ==
    /\ config = New(PoSConfig) /\ genesis \in GenesisHeaders
    /\ chain = <<>> /\ dbHead = 0 /\ recents = EmptyMap /\ store = EmptyMap
    /\ tally = newSnapshot(0, genesis.Extra) /\ state = GenesisState
    /\ result = [op |-> "Authorize", err |-> NoError, lock |-> 0,
                 val |-> <<1, 1>>, signFn |-> 1, signTxFn |-> 1,
                 ccVal |-> <<1, 1>>, ccSignTxFn |-> 1,
                 Authorize |-> [pc |-> "idle", id |-> 1],
                 Prepare |-> [pc |-> "idle", Coinbase |-> <<0, 0>>,
                              Difficulty |-> <<0, 0>>, raced |-> FALSE],
                 applyTransaction |-> [pc |-> "idle", val |-> <<0, 0>>,
                                       signTxFn |-> 0, raced |-> FALSE],
                 Seal |-> [pc |-> "idle", val |-> <<0, 0>>, signFn |-> 0]]
    /\ [][/\ \/ \E id \in 1..MaxIdentity :
                    result' \in identityStep(result, "Authorize", id)
             \/ result' \in identityStep(result, "Prepare", 0)
             \/ result' \in identityStep(result, "applyTransaction", 0)
             \/ result' \in identityStep(result, "Seal", 0)
          /\ UNCHANGED <<config, genesis, chain, dbHead, recents, store, tally,
                         state>>]_vars

\* ------------------------------------------------ failing contract calls
\* A received block is finalized while contract calls may fail: cv is the
\* answer of GetCurrentValidators, eligible the answer of
\* GetEligibleValidators (selectNextValidatorSet drops its error and goes on
\* with the list it got, nil on a failure), evm names the other failing
\* calls.  commitSpan is reached when no earlier test of Finalize returned;
\* with no eligible validator the first draw is 0, binarySearch answers -1 and
\* indexing the list panics: Finalize does not return.
errIndexOutOfRange == "panic: runtime error: index out of range [-1]"

FinalizeSelecting(header, cv, eligible, seed, incoming, evm) ==
    LET number == header.Number
        newValidators == IF eligible.err THEN <<>> ELSE eligible.validators
        extraSuffix == Len(header.Extra) - contractBytesLength \div AddressLength
        reached ==
            /\ isSpanCommitmentBlock(number)
            /\ ~(/\ isNoturnDifficulty(header.Difficulty)
                 /\ ecrecover(header) # tally.SystemContracts.OfficialNode)
            /\ ~(/\ needToUpdateValidatorList(number)
                 /\ IF cv.err THEN TRUE
                    ELSE SubSeq(header.Extra, 1, extraSuffix) # validatorsBytes(cv))
        validatorBytes ==
            IF isSpanCommitmentBlock(number) /\ newValidators # <<>>
            THEN [i \in 1..config.Span |->
                     selectNextValidatorSet(seed, newValidators)[i].Address]
            ELSE <<>>
        expected == FinalizeAndAssemble(header, Collected(incoming), tally,
                                        validatorBytes, header.Coinbase, {}).txs
        r == Finalize(header, Collected(incoming), expected, tally, cv,
                      validatorBytes, ZeroAddr, evm)
    IN  /\ result.op = "none"
        /\ tally.Number < MaxFinalized
        /\ verifySignersAndSeal(tally, header) = NoError
        /\ apply(tally, <<header>>).err = NoError
        /\ result' = [op |-> "Finalize",
                      err |-> IF reached /\ newValidators = <<>>
                              THEN errIndexOutOfRange ELSE r.err,
                      header |-> header, snap |-> tally, mined |-> FALSE,
                      before |-> Collected(incoming), systemTxs |-> expected,
                      selected |-> validatorBytes, evm |-> evm,
                      txs |-> IF reached /\ newValidators = <<>> THEN <<>>
                              ELSE r.txs,
                      received |-> r.received,
                      state |-> IF reached /\ newValidators = <<>>
                                THEN Collected(incoming) ELSE r.state,
                      cv |-> cv, eligible |-> eligible]
        /\ UNCHANGED <<config, genesis, chain, dbHead, recents, store, tally, state>>

SpecCalls ==
    /\ InitFinalize
    /\ [][\/ /\ result.op = "none"
             /\ tally.Number < MaxFinalized
             /\ \E header \in {h \in BlockInputs(tally.Number + 1) :
                                  /\ verifySignersAndSeal(tally, h) = NoError
                                  /\ apply(tally, <<h>>).err = NoError},
                   cv \in answersAt(tally.Number + 1) \cup {NoAnswer},
                   eligible \in {[err |-> TRUE],
                                 [err |-> FALSE, validators |-> <<>>],
                                 [err |-> FALSE,
                                  validators |-> <<[Address |-> 1, VotingPower |-> 2],
                                                   [Address |-> 2, VotingPower |-> 1]>>]},
                   evm \in EvmFailures(tally.Number + 1)
                            \cup {{"currentSpanNumber"}, {"isSignerSlashed"}} :
                  FinalizeSelecting(header, cv, eligible, 0, MaxIncoming, evm)
          \/ WriteBlock]_vars

\* ------------------------------------------------------------- properties
\* C1 (as stated): the signer of every accepted header at height N is a
\* signer of snapshot(N), or N >= Chaophraya and it is the OfficialNode of
\* snapshot(N).
C1_SignerInSnapshotAtN ==
    (result.op = "snapshot" /\ result.err = NoError /\ Len(chain) > 0) =>
        LET number == Len(chain)
            signer == ecrecover(chain[number])
        IN  \/ signer \in result.snap.Signers
            \/ /\ IsChaophraya(number)
               /\ signer = result.snap.SystemContracts.OfficialNode

\* C1 (amended): the signer of every header accepted at height N is a signer
\* of snapshot(N-1), or N >= Chaophraya and it is the OfficialNode of
\* snapshot(N-1); a header of any other signer that reaches seal
\* verification is rejected with UnauthorizedSigner.
C1_SignerInParentSnapshot ==
    (result.op = "verifyHeader" /\ result.snap # NilSnap) =>
        LET number == result.header.Number
            signer == ecrecover(result.header)
            authorized == \/ signer \in result.snap.Signers
                          \/ /\ IsChaophraya(number)
                             /\ signer = result.snap.SystemContracts.OfficialNode
        IN  /\ result.err = NoError => authorized
            /\ ~authorized =>
                  result.err \in {errUnauthorizedSigner,
                                  errMismatchingCheckpointSigners}
            /\ result.err = errUnauthorizedSigner => ~authorized

\* C1 witness: a PoS header sealed by the OfficialNode, which is no signer,
\* is accepted.
C1_Witness ==
    /\ result.op = "verifyHeader"
    /\ result.err = NoError
    /\ IsChaophraya(result.header.Number)
    /\ ecrecover(result.header) \notin result.snap.Signers
    /\ ecrecover(result.header) = result.snap.SystemContracts.OfficialNode

C3_SignerSpacing ==
    \A j \in DOMAIN chain : \A i \in 1..(j - 1) :
        LET r == apply(newSnapshot(0, genesis.Extra), SubSeq(chain, 1, j - 1))
        IN  (r.err = NoError /\ ecrecover(chain[i]) = ecrecover(chain[j]))
                => j - i > Cardinality(r.snap.Signers) \div 2

\* C4: the signer set changes in the header that brings the outstanding
\* votes on its target to strictly more than half of the current signers
\* (3 of 4, 2 of 3, 2 of 2, 1 of 1), the target then joins or leaves; with
\* fewer votes the signer set is unchanged.
C4_MajorityThreshold ==
    result.op = "apply" =>
        LET before == result.snap
            signer == ecrecover(result.header)
            voted == getVoteAddr(result.header)
            authorize == result.header.Nonce = nonceAuthVote
            valid == (voted \in before.Signers) # authorize
            others == {i \in DOMAIN before.Votes :
                          /\ before.Votes[i].Address = voted
                          /\ before.Votes[i].Signer # signer}
            count == Cardinality(others) + (IF valid THEN 1 ELSE 0)
            half == Cardinality(before.Signers) \div 2
        IN  IF voted # ZeroAddr /\ count > half
            THEN tally.Signers = IF voted \in before.Signers
                                 THEN before.Signers \ {voted}
                                 ELSE before.Signers \cup {voted}
            ELSE tally.Signers = before.Signers

\* C4 witness: the third vote of four signers changes the signer set.
C4_Witness ==
    /\ result.op = "apply"
    /\ Cardinality(result.snap.Signers) = 4
    /\ Len(result.snap.Votes) = 2
    /\ tally.Signers # result.snap.Signers

\* C5: a voter has at most one outstanding vote per target, the tally of a
\* target is the number of its voters, and repeating a vote that is already
\* outstanding leaves the tally as it was.
C5_VoteCountedOnce ==
    result.op = "apply" =>
        LET before == result.snap
            signer == ecrecover(result.header)
            voted == getVoteAddr(result.header)
            authorize == result.header.Nonce = nonceAuthVote
            repeated == \E i \in DOMAIN before.Votes :
                           /\ before.Votes[i].Signer = signer
                           /\ before.Votes[i].Address = voted
                           /\ before.Votes[i].Authorize = authorize
        IN  /\ \A i, j \in DOMAIN tally.Votes :
                  (/\ i # j
                   /\ tally.Votes[i].Signer = tally.Votes[j].Signer)
                      => tally.Votes[i].Address # tally.Votes[j].Address
            /\ \A t \in DOMAIN tally.Tally :
                  tally.Tally[t].Votes =
                      Cardinality({i \in DOMAIN tally.Votes :
                                      tally.Votes[i].Address = t})
            /\ (repeated /\ tally.Signers = before.Signers)
                  => tally.Tally = before.Tally

\* C5 witness: a signer repeats its outstanding vote and the target's tally
\* stays at one.
C5_Witness ==
    /\ result.op = "apply"
    /\ \E i \in DOMAIN result.snap.Votes :
          /\ result.snap.Votes[i].Signer = ecrecover(result.header)
          /\ result.snap.Votes[i].Address = getVoteAddr(result.header)
          /\ result.snap.Votes[i].Authorize = (result.header.Nonce = nonceAuthVote)
    /\ getVoteAddr(result.header) \in DOMAIN tally.Tally
    /\ tally.Tally[getVoteAddr(result.header)].Votes = 1

\* C6: when a header's vote removes signer X, no outstanding vote is by X
\* any more and every other target's tally counts exactly the votes that
\* the remaining voters had on it.
C6_RemovedSignerVotesDiscarded ==
    result.op = "apply" =>
        LET before == result.snap
            voted == getVoteAddr(result.header)
        IN  (voted \in before.Signers /\ voted \notin tally.Signers) =>
              /\ \A i \in DOMAIN tally.Votes : tally.Votes[i].Signer # voted
              /\ \A t \in Addr \ {voted} :
                    LET left == {i \in DOMAIN before.Votes :
                                    /\ before.Votes[i].Address = t
                                    /\ before.Votes[i].Signer # voted}
                    IN  IF left = {} THEN t \notin DOMAIN tally.Tally
                        ELSE /\ t \in DOMAIN tally.Tally
                             /\ tally.Tally[t].Votes = Cardinality(left)

\* C6 witness: the removed signer had an outstanding vote on another target.
C6_Witness ==
    /\ result.op = "apply"
    /\ getVoteAddr(result.header) \in result.snap.Signers
    /\ getVoteAddr(result.header) \notin tally.Signers
    /\ \E i \in DOMAIN result.snap.Votes :
          /\ result.snap.Votes[i].Signer = getVoteAddr(result.header)
          /\ result.snap.Votes[i].Address # getVoteAddr(result.header)

\* C7 (as stated): one header changes the signer set by at most one address
\* and that address is the header's voted target.
C7_OneChangePerHeader ==
    result.op = "apply" =>
        LET before == result.snap
            voted == getVoteAddr(result.header)
        IN  (before.Signers \ tally.Signers) \cup (tally.Signers \ before.Signers)
                \subseteq {voted}

\* C7 (amended): one header that is not a validator-list update block
\* changes the signer set by at most one address and that address is the
\* header's voted target; a pending proposal that exceeds the threshold only
\* because the set shrank stays pending in that header.
C7_OneChangePerVotingHeader ==
    (result.op = "apply" /\ ~needToUpdateValidatorList(result.header.Number)) =>
        LET before == result.snap
            voted == getVoteAddr(result.header)
        IN  (before.Signers \ tally.Signers) \cup (tally.Signers \ before.Signers)
                \subseteq {voted}

\* C7 witness: a signer was just removed and another proposal now exceeds
\* the threshold of the smaller set without having been applied.
C7_Witness ==
    /\ result.op = "apply"
    /\ ~needToUpdateValidatorList(result.header.Number)
    /\ tally.Signers # result.snap.Signers
    /\ \E t \in DOMAIN tally.Tally :
          tally.Tally[t].Votes > Cardinality(tally.Signers) \div 2

\* C8: when a header's vote changes the authorization of its target T, no
\* outstanding vote targets T and T has no tally entry; every outstanding
\* vote is a valid proposal against the current signers.
C8_TargetVotesDiscarded ==
    result.op = "apply" =>
        LET before == result.snap
            voted == getVoteAddr(result.header)
        IN  /\ ((voted \in before.Signers) # (voted \in tally.Signers)) =>
                  /\ \A i \in DOMAIN tally.Votes : tally.Votes[i].Address # voted
                  /\ voted \notin DOMAIN tally.Tally
            /\ \A i \in DOMAIN tally.Votes :
                  validVote(tally, tally.Votes[i].Address, tally.Votes[i].Authorize)

\* C8 witness: the target's status changes while other signers' votes on it
\* were outstanding.
C8_Witness ==
    /\ result.op = "apply"
    /\ (getVoteAddr(result.header) \in result.snap.Signers)
          # (getVoteAddr(result.header) \in tally.Signers)
    /\ \E i \in DOMAIN result.snap.Votes :
          /\ result.snap.Votes[i].Address = getVoteAddr(result.header)
          /\ result.snap.Votes[i].Signer # ecrecover(result.header)

\* C9: after an epoch-start block Votes and Tally are empty and the signer
\* set is the one before it, whatever vote the block carries; every
\* outstanding vote was cast after the latest epoch start.
C9_EpochResetsVotes ==
    result.op = "apply" =>
        /\ isOnEpochStart(tally.Number) =>
              /\ tally.Votes = <<>>
              /\ tally.Tally = EmptyMap
              /\ tally.Signers = result.snap.Signers
        /\ \A i \in DOMAIN tally.Votes :
              tally.Votes[i].Block > tally.Number - (tally.Number % config.Epoch)
        /\ \A t \in DOMAIN tally.Tally :
              tally.Tally[t].Votes =
                  Cardinality({i \in DOMAIN tally.Votes : tally.Votes[i].Address = t})

\* C9 witness: the epoch-start block carries the vote that would have
\* completed a majority.
C9_Witness ==
    /\ result.op = "apply"
    /\ isOnEpochStart(tally.Number)
    /\ getVoteAddr(result.header) \in DOMAIN result.snap.Tally
    /\ \A i \in DOMAIN result.snap.Votes :
          result.snap.Votes[i].Signer # ecrecover(result.header)
    /\ result.snap.Tally[getVoteAddr(result.header)].Votes + 1
          > Cardinality(result.snap.Signers) \div 2
    /\ result.snap.Tally[getVoteAddr(result.header)].Authorize
          = (result.header.Nonce = nonceAuthVote)

\* C10 (as stated): a signer that signed before an epoch-start block and
\* within the recent window of the header being verified after that block
\* is rejected with RecentlySigned, whether or not the headers in between
\* were imported in the same batch.
C10_RecentsSurviveCheckpoint ==
    (result.op = "VerifyHeaders" /\ result.snap # NilSnap) =>
        LET number == result.header.Number
            signer == ecrecover(result.header)
            window == Cardinality(result.snap.Signers) \div 2
        IN  (\E s \in DOMAIN chain, c \in DOMAIN chain :
                /\ s < c /\ c < number
                /\ isOnEpochStart(c)
                /\ number - s <= window
                /\ ecrecover(chain[s]) = signer)
            => result.err \in {errRecentlySigned, errExtraSigners,
                               errInvalidCheckpointSigners,
                               errMismatchingCheckpointSigners}

C12_TallyMatchesVotes ==
    tally # NilSnap =>
        /\ \A t \in DOMAIN tally.Tally :
              LET on == {i \in DOMAIN tally.Votes : tally.Votes[i].Address = t}
              IN  /\ tally.Tally[t].Votes = Cardinality(on)
                  /\ on # {}
                  /\ \A i \in on : tally.Votes[i].Authorize = tally.Tally[t].Authorize
        /\ \A i \in DOMAIN tally.Votes : tally.Votes[i].Address \in DOMAIN tally.Tally

\* C12 witness: a header's vote passes and adds a signer while the new
\* signer set still has an outstanding proposal on another target, and the
\* header's signer replaced nothing.
C12_Witness ==
    /\ result.op = "apply"
    /\ getVoteAddr(result.header) \in tally.Signers \ result.snap.Signers
    /\ tally.Tally # EmptyMap
    /\ tally.Votes # <<>>

emissionRank(tx) ==
    CASE tx.Data[1] = "commitSpan" -> 1
      [] tx.Data[1] = "slash" -> 2
      [] tx.Data[1] = "distributeReward" -> 3

\* C16: the system transactions a finalization emits, by Finalize as by
\* FinalizeAndAssemble, come in the order span commit, slash, distribute
\* reward, each at most once; before the Chaophraya height the finalizer
\* emits none and leaves every balance as it was.
C16_SystemTxOrder ==
    result.op \in {"Finalize", "FinalizeAndAssemble"} =>
        /\ \A i, j \in 1..Len(result.txs) :
              i < j => emissionRank(result.txs[i]) < emissionRank(result.txs[j])
        /\ ~IsChaophraya(result.header.Number) =>
              /\ result.err = NoError
              /\ result.txs = <<>>
              /\ result.state = result.before

\* the local validator has assembled a block with all three system
\* transactions
C16_Witness ==
    /\ result.op = "FinalizeAndAssemble"
    /\ result.err = NoError
    /\ Len(result.txs) = 3
    /\ result.before.balance[SystemAddress] > 0

\* the number of commitSpan transactions among txs
commitCount(txs) ==
    Cardinality({i \in 1..Len(txs) : txs[i].Data[1] = "commitSpan"})

slashTxs(txs) == {i \in 1..Len(txs) : txs[i].Data[1] = "slash"}

\* C18: a slash transaction is only emitted in a block of difficulty 1
\* whose coinbase is the OfficialNode, it names the in-turn signer of the
\* height and the current span, and that signer is not yet slashed in the
\* span; when the signer is already slashed no slash transaction is emitted
\* and a failing slash call cannot fail the finalization; no signer is ever
\* slashed twice in a span.
C18_SlashOncePerSpan ==
    /\ \A key \in DOMAIN state.slashed : state.slashed[key] = 1
    /\ result.op \in {"Finalize", "FinalizeAndAssemble"} =>
        LET N == result.header.Number
            inTurn == getInturnSigner(result.snap, N)
            span == IF isSpanFirstBlock(N) THEN GetCurrentSpan(result.header) + 1
                    ELSE GetCurrentSpan(result.header)
            already == <<inTurn, span>> \in DOMAIN result.before.slashed
        IN  /\ Cardinality(slashTxs(result.txs)) <= 1
            /\ \A i \in slashTxs(result.txs) :
                  /\ result.header.Difficulty = diffNoTurn
                  /\ result.header.Coinbase = result.snap.SystemContracts.OfficialNode
                  /\ result.txs[i].Data = <<"slash", inTurn, span>>
                  /\ result.txs[i].To = result.snap.SystemContracts.SlashManager
                  /\ ~already
            /\ (IsChaophraya(N) /\ already) =>
                  /\ slashTxs(result.txs) = {}
                  /\ result.err # errExecutionReverted \/ "slash" \notin result.evm
                  /\ (result.op = "FinalizeAndAssemble" /\ result.evm \subseteq {"slash"})
                        => result.err = NoError

\* the OfficialNode's block for an in-turn signer that is already slashed in
\* the span has been finalized without a slash transaction, although the
\* slash call would have failed
C18_Witness ==
    /\ result.op = "Finalize"
    /\ result.err = NoError
    /\ result.evm = {"slash"}
    /\ result.header.Difficulty = diffNoTurn
    /\ result.header.Coinbase = result.snap.SystemContracts.OfficialNode
    /\ <<getInturnSigner(result.snap, result.header.Number),
         GetCurrentSpan(result.header)>> \in DOMAIN result.before.slashed

\* the positions of the distributeReward transactions among txs
rewardTxs(txs) == {i \in 1..Len(txs) : txs[i].Data[1] = "distributeReward"}

\* C19: a successful finalization of a PoSA block that finds a positive
\* balance B at the system address leaves that address with 0 and emits
\* exactly one distributeReward transaction, of value B, to the StakeManager;
\* B is credited to the coinbase, which pays the transaction out of it, so
\* the StakeManager ends with B more and the coinbase with what it had.
\* When the balance is 0 no distributeReward transaction is emitted.
C19_RewardDistributed ==
    (/\ result.op \in {"Finalize", "FinalizeAndAssemble"}
     /\ IsChaophraya(result.header.Number)) =>
        LET B == result.before.balance[SystemAddress]
            coinbase == result.header.Coinbase
            stake == result.snap.SystemContracts.StakeManager
            sent == rewardTxs(result.txs)
        IN  /\ Cardinality(sent) <= 1
            /\ B = 0 => sent = {}
            /\ (B > 0 /\ result.err = NoError) =>
                  /\ result.state.balance[SystemAddress] = 0
                  /\ Cardinality(sent) = 1
                  /\ \A i \in sent :
                        /\ i = Len(result.txs)
                        /\ result.txs[i].Value = B
                        /\ result.txs[i].To = stake
                        /\ result.txs[i].Data = <<"distributeReward">>
                        /\ result.op = "FinalizeAndAssemble" =>
                              result.txs[i].From = coinbase
                  /\ result.state.balance[stake] = result.before.balance[stake] + B
                  /\ result.state.balance[coinbase] = result.before.balance[coinbase]
                  /\ \A a \in Accounts \ {SystemAddress, stake} :
                        result.state.balance[a] = result.before.balance[a]

\* a received PoSA block has been finalized with fees waiting at the system
\* address, and its distributeReward transaction was emitted
C19_Witness ==
    /\ result.op = "Finalize"
    /\ result.err = NoError
    /\ IsChaophraya(result.header.Number)
    /\ result.before.balance[SystemAddress] > 0
    /\ rewardTxs(result.txs) # {}

\* the signing hashes of a stream of transactions
signerHashes(txs) == [i \in 1..Len(txs) |-> signerHash(txs[i])]

\* the system transactions the producer's finalizer emits for the block in
\* result
expectedTxs ==
    FinalizeAndAssemble(result.header, result.before, result.snap,
                        result.selected, result.header.Coinbase, {}).txs

\* the errors Finalize returns for the header alone, whatever the stream
headerRejections ==
    {errInvalidDifficulty, "contract call failed", errMismatchingSpanValidators,
     errUnauthorizedSigner}

\* C20: when a PoSA block is verified and no call fails in the EVM, the
\* received system transactions are consumed from the head, one per
\* expected transaction and only when the signing hashes agree; the block
\* passes exactly when the received stream equals the expected one by
\* signing hash: an exhausted stream, a differing head and transactions left
\* over each reject it.
C20_ReceivedStreamMatched ==
    (/\ result.op = "Finalize"
     /\ IsChaophraya(result.header.Number)
     /\ result.evm = {}) =>
        LET done == Len(result.txs)
        IN  /\ result.systemTxs = result.txs \o result.received
            /\ done <= Len(expectedTxs)
            /\ signerHashes(result.txs) = signerHashes(SubSeq(expectedTxs, 1, done))
            /\ result.err \notin headerRejections =>
                  /\ result.err = NoError <=>
                        signerHashes(result.systemTxs) = signerHashes(expectedTxs)
                  /\ result.err \in {NoError, errInvalidSpan, errNoSystemTx,
                                     errTxHashMismatch, errSystemTxsLength}
            /\ result.err = errNoSystemTx =>
                  result.received = <<>> /\ done < Len(expectedTxs)
            /\ result.err = errTxHashMismatch =>
                  /\ result.received # <<>>
                  /\ done < Len(expectedTxs)
                  /\ signerHash(Head(result.received)) # signerHash(expectedTxs[done + 1])
            /\ result.err = errInvalidSpan =>
                  /\ done = 0
                  /\ \/ result.received = <<>>
                     \/ signerHash(Head(result.received)) # signerHash(expectedTxs[1])
            /\ result.err = errSystemTxsLength =>
                  result.received # <<>> /\ done = Len(expectedTxs)

\* a received block whose stream carries one transaction more than the
\* finalizer expects has been rejected after its expected transactions were
\* matched and consumed
C20_Witness ==
    /\ result.op = "Finalize"
    /\ result.err = errSystemTxsLength
    /\ Len(result.txs) >= 2
    /\ Len(result.received) = 1

\* C21: in PoSA mode, when the header is out-of-turn or the in-turn signer
\* is slashed for the current span, the goroutine Seal started reaches the
\* send, and a block is on the results channel, only if the local signer is
\* the OfficialNode; for any other signer nothing is sent and the goroutine
\* ends only once stop is closed.
C21_FallbackSentByOfficialNode ==
    (/\ result.op = "Seal"
     /\ result.err = NoError
     /\ IsChaophraya(result.header.Number)
     /\ ~isInturnDifficulty(result.header.Difficulty) \/ result.slashed) =>
        /\ (result.sent \/ result.pc = "send") =>
              result.val = result.snap.SystemContracts.OfficialNode
        /\ result.val # result.snap.SystemContracts.OfficialNode =>
              /\ ~result.sent
              /\ result.pc = "ended" => result.stop

\* the OfficialNode has sent the fallback block for a slashed in-turn signer
C21_Witness ==
    /\ result.op = "Seal"
    /\ IsChaophraya(result.header.Number)
    /\ result.slashed
    /\ result.val = result.snap.SystemContracts.OfficialNode
    /\ result.sent

\* C23: once stop is closed while the wait the goroutine is in (the sealing
\* delay, or the fallback delay in PoSA mode) has not elapsed, no block is
\* sent on the results channel and the goroutine ends; whenever Seal starts
\* the goroutine the header already carries the signature of the local
\* signer, also when stop was closed before Seal was called.
C23_StopHonoured ==
    /\ [](result.op = "Seal" =>
            /\ result.early => ~result.sent /\ result.pc # "send"
            /\ result.err = NoError => ecrecover(result.header) = result.val)
    /\ (result.op = "Seal" /\ result.early)
          ~> (result.op = "Seal" /\ result.pc = "ended" /\ ~result.sent)

\* stop was closed while the goroutine was parked in the fallback wait of
\* the OfficialNode, and the goroutine has ended without a block sent
C23_Witness ==
    /\ result.op = "Seal"
    /\ result.early
    /\ result.pc = "ended"
    /\ result.val = result.snap.SystemContracts.OfficialNode
    /\ ~isInturnDifficulty(result.header.Difficulty)
    /\ ~result.late

\* C22: from the Chaophraya height on, a received block of difficulty 1
\* whose recovered signer is not the OfficialNode is rejected by Finalize
\* with InvalidDifficulty, whatever else it carries, and the chain head only
\* advances over a block of difficulty 1 when the OfficialNode signed it.
C22_NoTurnOnlyFromOfficialNode ==
    /\ []((/\ result.op = "Finalize"
            /\ IsChaophraya(result.header.Number)
            /\ result.header.Difficulty = diffNoTurn
            /\ ecrecover(result.header) # result.snap.SystemContracts.OfficialNode)
              => result.err = errInvalidDifficulty)
    /\ [][(/\ tally'.Number = tally.Number + 1
           /\ IsChaophraya(result.header.Number)
           /\ result.header.Difficulty = diffNoTurn)
             => ecrecover(result.header) = tally.SystemContracts.OfficialNode]_vars

\* an authorized validator that is out of turn sent a block of difficulty 1:
\* it passed seal verification and Finalize rejected it
C22_Witness ==
    /\ result.op = "Finalize"
    /\ result.err = errInvalidDifficulty
    /\ ecrecover(result.header) \in result.snap.Signers
    /\ result.systemTxs = expectedTxs

C25_ValidatorsOfTheSpan ==
    /\ [](IsChaophraya(tally.Number) => Len(tally.Validators) = config.Span)
    /\ [][tally'.Number = tally.Number + 1 =>
            IF needToUpdateValidatorList(result.header.Number)
            THEN tally'.Validators = payloadValidators(result.header)
            ELSE tally'.Validators = tally.Validators]_vars

\* C29: on every validator-list update block, the one before the Chaophraya
\* height included, a block whose embedded validator records differ from the
\* answer of the contract client is rejected with
\* errMismatchingSpanValidators (or earlier, for its difficulty).
C29_UpdatePayloadChecked ==
    [][\A header \in UpdateInputs(tally.Number + 1), cv \in SpanAnswers,
          validatorBytes \in selectionsAt(tally.Number + 1) :
            (/\ FinalizeBlock(header, cv, validatorBytes, 0, {})
             /\ needToUpdateValidatorList(header.Number)
             /\ payloadValidators(header) # cv.validators)
            => result'.err \in {errMismatchingSpanValidators, errInvalidDifficulty}]_vars

\* C30: on a validator-list update block, a block whose three embedded
\* system-contract addresses differ from the answer of the contract client is
\* rejected.
C30_ContractAddressesChecked ==
    [][\A header \in UpdateInputs(tally.Number + 1), cv \in SpanAnswers,
          validatorBytes \in selectionsAt(tally.Number + 1) :
            (/\ FinalizeBlock(header, cv, validatorBytes, 0, {})
             /\ needToUpdateValidatorList(header.Number)
             /\ payloadContracts(header) # cv.contracts)
            => result'.err # NoError]_vars

\* C26: a producer's vote is read back from the field Prepare wrote it to,
\* Coinbase before the Erawan height and the trailing bytes of MixDigest from
\* it on; the producers of a chain that crosses the Erawan height leave the
\* same snapshot as on a chain where Erawan never activates; and before
\* Erawan a header with a non-zero MixDigest is rejected.
C26_VoteFieldFollowsErawan ==
    /\ result.op = "Prepare" =>
          /\ getVoteAddr(result.header) = result.vote
          /\ IF IsErawan(result.header.Number)
             THEN result.header.MixDigest = <<0, result.vote>>
             ELSE /\ result.header.Coinbase = result.vote
                  /\ result.header.MixDigest = EmptyHash
          /\ result.err = NoError
          /\ result.run = "plain" /\ result.left = <<>> => tally = result.reference
    /\ result.op = "verifyHeader" /\ ~IsErawan(result.header.Number)
          => result.err = errInvalidMixDigest

C26_Witness ==
    /\ result.op = "Prepare"
    /\ result.run = "plain"
    /\ result.left = <<>>
    /\ Len(result.producers) = MaxVotes
    /\ tally.Signers # newSnapshot(0, genesis.Extra).Signers
    /\ \E i, j \in 1..Len(chain) :
          /\ i < 2 /\ j >= 2
          /\ chain[i].Coinbase # ZeroAddr
          /\ chain[i].Coinbase = chain[j].Coinbase
          /\ chain[i].Signer # chain[j].Signer

\* the answer of the contract client that the update block in result embeds
embeddedAnswer ==
    IF needToUpdateValidatorList(result.header.Number)
    THEN [err |-> FALSE, validators |-> payloadValidators(result.header),
          contracts |-> payloadContracts(result.header)]
    ELSE NoAnswer

\* Finalize on a verifying node val for the assembled block in result: same
\* parent state and snapshot, the assembled system transactions received
verifierRun(val) ==
    Finalize(result.header, result.before, result.txs, result.snap,
             embeddedAnswer, result.selected, val, result.evm)

\* Finalize agrees with the producer on the block in result
verifierAgrees ==
    \A val \in Producers \cup {ZeroAddr} :
        /\ verifierRun(val).err = NoError
        /\ verifierRun(val).txs = result.txs
        /\ verifierRun(val).received = <<>>
        /\ verifierRun(val).state = result.state
        /\ \A i \in 1..Len(result.txs) :
              /\ result.txs[i].From = result.header.Coinbase
              /\ result.txs[i].Nonce
                    = result.before.nonce[result.header.Coinbase] + i - 1

\* C27 as stated: for every PoSA block FinalizeAndAssemble assembles, Finalize
\* on a verifying node with the same parent state and the block's system
\* transactions derives the same transactions, consumes them all and accepts.
C27_AssembledBlockVerifies ==
    (/\ result.op = "FinalizeAndAssemble"
     /\ result.err = NoError
     /\ IsChaophraya(result.header.Number)) => verifierAgrees

\* C27 amended: the same for every assembled PoSA block that Seal sends.
C27_SentBlockVerifies ==
    (/\ result.op = "FinalizeAndAssemble"
     /\ result.err = NoError
     /\ IsChaophraya(result.header.Number)
     /\ sealRefusal(tally, result.header, result.header.Coinbase,
                    slashAnswer(result.header)) = NoError) => verifierAgrees

C27_Witness ==
    /\ result.op = "FinalizeAndAssemble"
    /\ result.err = NoError
    /\ IsChaophraya(result.header.Number)
    /\ sealRefusal(tally, result.header, result.header.Coinbase,
                   slashAnswer(result.header)) = NoError
    /\ Len(result.txs) = 3
    /\ result.state # result.before

\* C28: a header filled in by Prepare and signed by Seal passes verifyHeader
\* on a node with the same chain, also at a height that is at once an epoch
\* start and a validator-list update block.
C28_MinedHeaderVerifies ==
    (result.op = "verifyHeader" /\ result.mined) => result.err = NoError

\* C31: every snapshot derived at a height divisible by checkpointInterval,
\* and the snapshot derived at the Chaophraya height, is in the snapshot
\* store from the moment it is derived.
C31_CheckpointSnapshotsPersisted ==
    \A number \in DOMAIN recents :
        (\/ number % checkpointInterval = 0
         \/ config.ChaophrayaBlock # Nil /\ number = config.ChaophrayaBlock)
        => /\ number \in DOMAIN store
           /\ store[number] = recents[number]

\* C32 (as stated): a block during whose finalization a contract-client call
\* fails (GetCurrentValidators, GetEligibleValidators, GetCurrentSpan,
\* IsSlashed, or the application of commitSpan, slash or distributeReward)
\* ends with a returned error, and a span commitment block whose eligible
\* validator list is missing or empty carries no commitSpan transaction.
C32_FailedCallFailsBlock ==
    (result.op = "Finalize" /\ "eligible" \in DOMAIN result) =>
        LET header == result.header
            number == header.Number
            noList == IF result.eligible.err THEN TRUE
                      ELSE result.eligible.validators = <<>>
            slashDue == /\ IsChaophraya(number)
                        /\ ~isInturnDifficulty(header.Difficulty)
                        /\ header.Coinbase = result.snap.SystemContracts.OfficialNode
            failedCall ==
                \/ needToUpdateValidatorList(number) /\ IsChaophraya(number)
                                                     /\ result.cv.err
                \/ isSpanCommitmentBlock(number)
                   /\ (noList \/ "commitSpan" \in result.evm)
                \/ slashDue /\ result.evm \cap {"currentSpanNumber", "isSignerSlashed",
                                                "slash"} # {}
                            /\ ~IsSlashed(state, getInturnSigner(result.snap, number),
                                          IF isSpanFirstBlock(number)
                                          THEN GetCurrentSpan(header) + 1
                                          ELSE GetCurrentSpan(header))
                \/ /\ IsChaophraya(number)
                   /\ result.before.balance[SystemAddress] > 0
                   /\ "distributeReward" \in result.evm
        IN  /\ failedCall => result.err \notin {NoError, errIndexOutOfRange}
            /\ (isSpanCommitmentBlock(number) /\ noList)
                   => commitCount(result.txs) = 0

\* C33 (as stated): on an epoch-start block below Chaophraya a header is
\* accepted only if the middle section of its extra-data is the signer list
\* of the parent snapshot in ascending order, and the header Prepare builds
\* carries exactly that list.
C33_CheckpointSignersEmbedded ==
    LET number == result.header.Number
    IN  (/\ result.op \in {"verifyHeader", "Seal"}
         /\ result.snap # NilSnap
         /\ isOnEpochStart(number) /\ ~IsChaophraya(number)
         /\ result.op = "verifyHeader" => result.err = NoError
         /\ result.op = "Seal" => result.err # "unknown validators")
        => /\ result.header.Extra = signers(result.snap)
           /\ result.header.ExtraRem = 0
           /\ \A i \in 1..(Len(result.header.Extra) - 1) :
                 result.header.Extra[i] < result.header.Extra[i + 1]

\* C34 (as stated): an accepted header carries the authVote or the dropVote
\* nonce, and an accepted epoch-start or span-transition block (the block
\* that carries the validator list of the next span, or the first block of a
\* span) carries the dropVote nonce and no voted address.
C34_NoVoteOnCheckpointBlocks ==
    LET header == result.header
        number == header.Number
        voted == IF IsErawan(number) THEN getVoteAddr(header) ELSE header.Coinbase
    IN  (result.op = "verifyHeader" /\ result.err = NoError) =>
            /\ header.Nonce \in {nonceAuthVote, nonceDropVote}
            /\ (\/ isOnEpochStart(number)
                \/ needToUpdateValidatorList(number)
                \/ isSpanFirstBlock(number))
               => header.Nonce = nonceDropVote /\ voted = ZeroAddr

\* C35 (as stated): the middle section of the extra-data of an accepted
\* header is, on a validator-list update block, k validator records of 40
\* bytes (k >= 0) followed by 60 bytes of contract addresses, and so never
\* shorter than 60 bytes; on any other epoch-start block a multiple of 20
\* bytes; on every other block empty.
C35_ExtraLayoutChecked ==
    LET header == result.header
        number == header.Number
        middle == signersBytesOf(header)
    IN  (result.op = "verifyHeader" /\ result.err = NoError) =>
            IF isNextBlockPoS(number) /\ needToUpdateValidatorList(number)
            THEN /\ middle >= contractBytesLength
                 /\ (middle - contractBytesLength) % validatorBytesLength = 0
            ELSE IF isOnEpochStart(number) THEN middle % AddressLength = 0
            ELSE middle = 0

\* C36 (as stated): the header Prepare returns carries the local signer as
\* Coinbase at a PoSA height and, at every other height, the zero address
\* unless a vote was written into it (before Erawan), whatever the caller
\* passed.
C36_CoinbaseOverwritten ==
    LET number == result.header.Number
    IN  (result.op = "Prepare" /\ result.err = NoError) =>
            result.header.Coinbase =
                IF IsChaophraya(number) THEN result.val
                ELSE IF ~IsErawan(number) THEN result.pick
                ELSE ZeroAddr

\* C36 (amended): the header Prepare returns carries the local signer as
\* Coinbase at a PoSA height; below Erawan the voted address, zero without a
\* vote, whatever the caller passed; from Erawan up to Chaophraya the
\* Coinbase the caller passed.
C36_CoinbaseByHeight ==
    LET number == result.header.Number
    IN  (result.op = "Prepare" /\ result.err = NoError) =>
            result.header.Coinbase =
                IF IsChaophraya(number) THEN result.val
                ELSE IF ~IsErawan(number) THEN result.pick
                ELSE result.coinbase

C36_Witness ==
    /\ result.op = "Prepare" /\ result.err = NoError
    /\ IsErawan(result.header.Number) /\ ~IsChaophraya(result.header.Number)
    /\ result.coinbase \notin {ZeroAddr, result.val}
    /\ result.header.Coinbase = result.coinbase
    /\ result.header.MixDigest # EmptyHash

\* C37 (as stated): no Prepare and no system-transaction application reads
\* the signer identity without the lock while Authorize holds it, and every
\* finished Prepare, applyTransaction and Seal has seen the fields of one
\* identity only.
C37_IdentityReadUnderLock ==
    result.op = "Authorize" =>
        /\ ~result.Prepare.raced
        /\ ~result.applyTransaction.raced
        /\ result.Prepare.pc = "done" =>
              \E id \in 1..MaxIdentity :
                  /\ result.Prepare.Coinbase = <<id, id>>
                  /\ result.Prepare.Difficulty = <<id, id>>
        /\ result.applyTransaction.pc = "done" =>
              \E id \in 1..MaxIdentity :
                  /\ result.applyTransaction.val = <<id, id>>
                  /\ result.applyTransaction.signTxFn = id
        /\ result.Seal.pc = "done" =>
              \E id \in 1..MaxIdentity :
                  /\ result.Seal.val = <<id, id>>
                  /\ result.Seal.signFn = id

\* C38 (as stated): a draw that the rejection loop accepts is an integer in
\* [1, W], W the total voting power, and among the raw values the loop
\* accepts every value of [1, W] has the same number of preimages.
C38_DrawUnbiased ==
    result.op = "randomRangeInclusive" =>
        LET W == result.totalVotingPower
            preimages(v) ==
                Cardinality({x \in 0..(RandModulus - 1) :
                                /\ rawDraw(1, W, x).accepted
                                /\ rawDraw(1, W, x).value = v})
        IN  /\ result.draw.accepted => result.draw.value \in 1..W
            /\ \A v \in 1..W : preimages(v) = preimages(1)

\* C39 (as stated): every system transaction of a finalized block has gas
\* price 0, gas limit 2^63/2 (2^62) and the block's coinbase as sender, and
\* carries the coinbase's state nonce, which each transaction raises by one.
C39_SystemTxGasQuarter ==
    (result.op \in {"Finalize", "FinalizeAndAssemble"}) =>
        LET coinbase == result.header.Coinbase
        IN  /\ \A i \in 1..Len(result.txs) :
                  /\ result.txs[i].GasPrice = 0
                  /\ result.txs[i].Gas = <<16384, 0, 0, 0>>
                  /\ result.txs[i].From = coinbase
                  /\ result.txs[i].Nonce = result.before.nonce[coinbase] + i - 1
            /\ result.state.nonce[coinbase]
                  = result.before.nonce[coinbase] + Len(result.txs)

\* C39 (amended): every system transaction of a finalized block has gas
\* price 0, gas limit MaxUint64/2 (2^63 - 1) and the block's coinbase as
\* sender, and carries the coinbase's state nonce, which each transaction
\* raises by one.
C39_SystemTxFields ==
    (result.op \in {"Finalize", "FinalizeAndAssemble"}) =>
        LET coinbase == result.header.Coinbase
        IN  /\ \A i \in 1..Len(result.txs) :
                  /\ result.txs[i].GasPrice = 0
                  /\ result.txs[i].Gas = <<32767, 65535, 65535, 65535>>
                  /\ result.txs[i].From = coinbase
                  /\ result.txs[i].Nonce = result.before.nonce[coinbase] + i - 1
            /\ result.state.nonce[coinbase]
                  = result.before.nonce[coinbase] + Len(result.txs)

C39_Witness ==
    /\ result.op = "Finalize" /\ result.err = NoError
    /\ Len(result.txs) = 2
    /\ result.before.nonce[result.header.Coinbase] > 0
    /\ result.txs[2].Nonce = result.before.nonce[result.header.Coinbase] + 1
    /\ result.txs[2].Gas = HalfMaxUint64

\* C40: a Seal at height 0, or of a block without transactions when Period
\* is 0, or by a local signer that is no signer (nor, at a PoSA height, the
\* OfficialNode), or, below Chaophraya, by a local signer inside the
\* recent-signers window, has returned an error, has not signed the header
\* and has no goroutine that could send on the results channel.
C40_RefusedSealSendsNothing ==
    LET number == result.header.Number
        val == result.val
        snap == result.snap
        limit == Cardinality(snap.Signers) \div 2 + 1
        empty == IF "empty" \in DOMAIN result THEN result.empty ELSE FALSE
        refused ==
            IF number = 0 THEN TRUE
            ELSE \/ config.Period = 0 /\ empty
                 \/ /\ val \notin snap.Signers
                    /\ IF IsChaophraya(number)
                       THEN val # snap.SystemContracts.OfficialNode ELSE TRUE
                 \/ /\ ~IsChaophraya(number)
                    /\ \E seen \in DOMAIN snap.Recents :
                          /\ snap.Recents[seen] = val
                          /\ number < limit \/ seen > number - limit
    IN  (result.op = "Seal" /\ refused) =>
            /\ result.err # NoError
            /\ result.header.Signer = ZeroAddr
            /\ result.pc = "ended"
            /\ ~result.sent

\* Seal has refused a block without transactions on a chain with Period 0,
\* asked by a signer whose turn it is
C40_Witness ==
    /\ result.op = "Seal"
    /\ config.Period = 0 /\ result.header.Number > 0
    /\ "empty" \in DOMAIN result /\ result.empty
    /\ result.val \in result.snap.Signers
    /\ isInturnDifficulty(result.header.Difficulty)
    /\ result.err = "sealing paused while waiting for transactions"
    /\ result.header.Signer = ZeroAddr /\ ~result.sent

====
